---- MODULE Spec2Model ----
(***************************************************************************)
(* Super Bowl Squares: the scoring engine (core/scoring.ts), the text      *)
(* serializer (core/serializer.ts) and the text parser (core/parser.ts).   *)
(*                                                                         *)
(* Conventions.  A string is a sequence of one-character strings.  An      *)
(* optional field (buyIn?, payouts?, fullBoard?, mySquares?) is a sequence *)
(* of length 0 (absent) or 1 (present).  Indices keep the 0-based values   *)
(* of the source (quarter 0..3, row/col 0.., -1 for "not found"); a        *)
(* sequence s is read at s[i + 1].  A Map key `${row},${col}` is the pair  *)
(* <<row, col>>.                                                           *)
(***************************************************************************)
EXTENDS Integers, Sequences, FiniteSets, TLC

VARIABLES
    board,      \* the Board handed to the scoring engine
    state,      \* GameState: [quarter, score: [top, left]]
    statuses,   \* last result of checkAllMySquares(board, state)
    fbStatus,   \* last result of checkFullBoard inside getFullBoardCellStatuses (0 or 1 element)
    cells,      \* last result of getFullBoardCellStatuses(board, state)
    rt,         \* a board list written out by serializeBoards and read back by parseBoards
    call        \* one call of an entry point of the parser or the codec: its argument and result

vars == <<board, state, statuses, fbStatus, cells, rt, call>>

\* ------------------------------------------------------------------ bounds

MaxScore == 9
MaxNeg == 1
NumSquares == 2

Scores == (0 - MaxNeg)..MaxScore
\* a score entry differs from the one before by a scoring play or a correction
Plays == {-1, 1, 3, 7}
\* base digits and in-slot gaps of the tracked squares' digit groups
Seeds == {2}
PairGaps == {1, 3, 4}

\* ------------------------------------------------------------- characters

UpperChars == <<"A","B","C","D","E","F","G","H","I","J","K","L","M",
                "N","O","P","Q","R","S","T","U","V","W","X","Y","Z">>
LowerChars == <<"a","b","c","d","e","f","g","h","i","j","k","l","m",
                "n","o","p","q","r","s","t","u","v","w","x","y","z">>

LowerMap ==
    [c \in {UpperChars[i] : i \in 1..26} |->
        LowerChars[CHOOSE i \in 1..26 : UpperChars[i] = c]]

toLowerChar(c) == IF c \in DOMAIN LowerMap THEN LowerMap[c] ELSE c

toLowerCase(s) == [i \in 1..Len(s) |-> toLowerChar(s[i])]

\* ---------------------------------------------------------------- scoring

Abs(n) == IF n < 0 THEN 0 - n ELSE n

lastDigit(score) == Abs(score) % 10

quarterIndex_alwaysQuarter(b, quarter) == quarter

quarterIndex(b, quarter) == IF b.config.reroll THEN quarter ELSE 0

\* Array.prototype.includes on a digit group
includes(ds, d) == \E i \in 1..Len(ds) : ds[i] = d

\* variant: the top-team near miss listed whatever the left digits
topNear_ungated(digits, topScore, leftScore, topTeam, pts) ==
    IF includes(digits.topDigits, lastDigit(topScore + pts))
    THEN << [team |-> topTeam, points |-> pts] >>
    ELSE << >>

\* one pass of a `for (const pts of [3, 7])` loop body: 0 or 1 pushed entries
topNear(digits, topScore, leftScore, topTeam, pts) ==
    IF includes(digits.topDigits, lastDigit(topScore + pts))
       /\ includes(digits.leftDigits, lastDigit(leftScore))
    THEN << [team |-> topTeam, points |-> pts] >>
    ELSE << >>

leftNear(digits, topScore, leftScore, leftTeam, pts) ==
    IF includes(digits.topDigits, lastDigit(topScore))
       /\ includes(digits.leftDigits, lastDigit(leftScore + pts))
    THEN << [team |-> leftTeam, points |-> pts] >>
    ELSE << >>

checkMySquare_noEarlyReturn(digits, topScore, leftScore, topTeam, leftTeam) ==
    LET td == lastDigit(topScore)
        ld == lastDigit(leftScore)
        isWinner == includes(digits.topDigits, td) /\ includes(digits.leftDigits, ld)
    IN  [isWinner |-> isWinner,
         nearMisses |-> topNear(digits, topScore, leftScore, topTeam, 3)
                        \o topNear(digits, topScore, leftScore, topTeam, 7)
                        \o leftNear(digits, topScore, leftScore, leftTeam, 3)
                        \o leftNear(digits, topScore, leftScore, leftTeam, 7)]

checkMySquare_orWinner(digits, topScore, leftScore, topTeam, leftTeam) ==
    LET td == lastDigit(topScore)
        ld == lastDigit(leftScore)
        isWinner == includes(digits.topDigits, td) \/ includes(digits.leftDigits, ld)
    IN  IF isWinner
        THEN [isWinner |-> TRUE, nearMisses |-> << >>]
        ELSE [isWinner |-> isWinner,
              nearMisses |-> topNear(digits, topScore, leftScore, topTeam, 3)
                             \o topNear(digits, topScore, leftScore, topTeam, 7)
                             \o leftNear(digits, topScore, leftScore, leftTeam, 3)
                             \o leftNear(digits, topScore, leftScore, leftTeam, 7)]

checkMySquare_ungatedNear(digits, topScore, leftScore, topTeam, leftTeam) ==
    LET td == lastDigit(topScore)
        ld == lastDigit(leftScore)
        isWinner == includes(digits.topDigits, td) /\ includes(digits.leftDigits, ld)
        near(ds, score, team, pts) ==
            IF includes(ds, lastDigit(score + pts))
            THEN << [team |-> team, points |-> pts] >> ELSE << >>
    IN  IF isWinner
        THEN [isWinner |-> TRUE, nearMisses |-> << >>]
        ELSE [isWinner |-> isWinner,
              nearMisses |-> near(digits.topDigits, topScore, topTeam, 3)
                             \o near(digits.topDigits, topScore, topTeam, 7)
                             \o near(digits.leftDigits, leftScore, leftTeam, 3)
                             \o near(digits.leftDigits, leftScore, leftTeam, 7)]

checkMySquare(digits, topScore, leftScore, topTeam, leftTeam) ==
    LET td == lastDigit(topScore)
        ld == lastDigit(leftScore)
        isWinner == includes(digits.topDigits, td) /\ includes(digits.leftDigits, ld)
    IN  IF isWinner
        THEN [isWinner |-> TRUE, nearMisses |-> << >>]
        ELSE [isWinner |-> isWinner,
              nearMisses |-> topNear(digits, topScore, leftScore, topTeam, 3)
                             \o topNear(digits, topScore, leftScore, topTeam, 7)
                             \o leftNear(digits, topScore, leftScore, leftTeam, 3)
                             \o leftNear(digits, topScore, leftScore, leftTeam, 7)]

checkAllMySquares_alwaysFirstQuarter(b, st) ==
    IF b.mySquares = << >> THEN << >>
    ELSE LET squares == b.mySquares[1]
         IN  [i \in 1..Len(squares) |->
                 checkMySquare(squares[i].quarters[1],
                               st.score.top, st.score.left,
                               b.config.topTeam, b.config.leftTeam)]

checkAllMySquares(b, st) ==
    IF b.mySquares = << >> THEN << >>
    ELSE LET qi == quarterIndex(b, st.quarter)
             squares == b.mySquares[1]
         IN  [i \in 1..Len(squares) |->
                 checkMySquare(squares[i].quarters[qi + 1],
                               st.score.top, st.score.left,
                               b.config.topTeam, b.config.leftTeam)]

\* ------------------------------------------------------ full-board scoring

findPosition_lastIndex(numbers, digit) ==
    IF \E i \in 1..Len(numbers) : includes(numbers[i], digit)
    THEN (CHOOSE i \in 1..Len(numbers) :
             /\ includes(numbers[i], digit)
             /\ \A j \in 1..Len(numbers) : includes(numbers[j], digit) => j <= i) - 1
    ELSE -1

\* numbers.findIndex(ds => ds.includes(digit))
findPosition(numbers, digit) ==
    IF \E i \in 1..Len(numbers) : includes(numbers[i], digit)
    THEN (CHOOSE i \in 1..Len(numbers) :
             /\ includes(numbers[i], digit)
             /\ \A j \in 1..(i - 1) : ~includes(numbers[j], digit)) - 1
    ELSE -1

\* variant: the top-team near miss kept when it falls in the winning column
topNearPos_sameColumn(qn, topScore, winRow, winCol, topTeam, pts) ==
    LET nearCol == findPosition(qn.topNumbers, lastDigit(topScore + pts))
    IN  IF nearCol # -1
        THEN << [pos |-> [row |-> winRow, col |-> nearCol],
                 nearMiss |-> [team |-> topTeam, points |-> pts]] >>
        ELSE << >>

\* one pass of the "Top team +3, +7" loop body
topNearPos(qn, topScore, winRow, winCol, topTeam, pts) ==
    LET nearCol == findPosition(qn.topNumbers, lastDigit(topScore + pts))
    IN  IF nearCol # -1 /\ nearCol # winCol
        THEN << [pos |-> [row |-> winRow, col |-> nearCol],
                 nearMiss |-> [team |-> topTeam, points |-> pts]] >>
        ELSE << >>

\* variant: the left-team near miss placed in the winning row
leftNearPos_inWinRow(qn, leftScore, winRow, winCol, leftTeam, pts) ==
    LET nearRow == findPosition(qn.leftNumbers, lastDigit(leftScore + pts))
    IN  IF nearRow # -1 /\ nearRow # winRow
        THEN << [pos |-> [row |-> winRow, col |-> nearRow],
                 nearMiss |-> [team |-> leftTeam, points |-> pts]] >>
        ELSE << >>

\* one pass of the "Left team +3, +7" loop body
leftNearPos(qn, leftScore, winRow, winCol, leftTeam, pts) ==
    LET nearRow == findPosition(qn.leftNumbers, lastDigit(leftScore + pts))
    IN  IF nearRow # -1 /\ nearRow # winRow
        THEN << [pos |-> [row |-> nearRow, col |-> winCol],
                 nearMiss |-> [team |-> leftTeam, points |-> pts]] >>
        ELSE << >>

checkFullBoard_noSameSlotGuard(qn, topScore, leftScore, topTeam, leftTeam) ==
    LET winCol == findPosition(qn.topNumbers, lastDigit(topScore))
        winRow == findPosition(qn.leftNumbers, lastDigit(leftScore))
        tn(pts) == LET nearCol == findPosition(qn.topNumbers, lastDigit(topScore + pts))
                   IN  IF nearCol # -1
                       THEN << [pos |-> [row |-> winRow, col |-> nearCol],
                                nearMiss |-> [team |-> topTeam, points |-> pts]] >>
                       ELSE << >>
        ln(pts) == LET nearRow == findPosition(qn.leftNumbers, lastDigit(leftScore + pts))
                   IN  IF nearRow # -1
                       THEN << [pos |-> [row |-> nearRow, col |-> winCol],
                                nearMiss |-> [team |-> leftTeam, points |-> pts]] >>
                       ELSE << >>
    IN  [winnerPos |-> [row |-> winRow, col |-> winCol],
         nearMissPositions |-> tn(3) \o tn(7) \o ln(3) \o ln(7)]

checkFullBoard(qn, topScore, leftScore, topTeam, leftTeam) ==
    LET td == lastDigit(topScore)
        ld == lastDigit(leftScore)
        winCol == findPosition(qn.topNumbers, td)
        winRow == findPosition(qn.leftNumbers, ld)
    IN  [winnerPos |-> [row |-> winRow, col |-> winCol],
         nearMissPositions |->
             topNearPos(qn, topScore, winRow, winCol, topTeam, 3)
             \o topNearPos(qn, topScore, winRow, winCol, topTeam, 7)
             \o leftNearPos(qn, leftScore, winRow, winCol, leftTeam, 3)
             \o leftNearPos(qn, leftScore, winRow, winCol, leftTeam, 7)]

\* grid[row]?.[col] ?? ''
gridName(grid, row, col) ==
    IF row >= 0 /\ row < Len(grid)
    THEN IF col >= 0 /\ col < Len(grid[row + 1]) THEN grid[row + 1][col + 1] ELSE << >>
    ELSE << >>

\* variant: the names compared as written
isMineName_exact(mySquareNames, name) ==
    \E i \in 1..Len(mySquareNames) : mySquareNames[i] = name

\* new Set(mySquareNames.map(n => n.toLowerCase())).has(name.toLowerCase())
isMineName(mySquareNames, name) ==
    \E i \in 1..Len(mySquareNames) : toLowerCase(mySquareNames[i]) = toLowerCase(name)

keyOf(pos) == << pos.row, pos.col >>

\* the "Near misses" loop, from entry i of nearMissPositions on
RECURSIVE mergeNearMisses_overwrite(_, _, _, _)
mergeNearMisses_overwrite(map, fb, nms, i) ==
    IF i > Len(nms) THEN map
    ELSE LET nm == nms[i]
             nk == keyOf(nm.pos)
             name == gridName(fb.grid, nm.pos.row, nm.pos.col)
             fresh == [isWinner |-> FALSE,
                       isMine |-> isMineName(fb.mySquareNames, name),
                       nearMisses |-> << nm.nearMiss >>]
             next == IF nk \in DOMAIN map
                     THEN [map EXCEPT ![nk] = fresh]
                     ELSE (nk :> fresh) @@ map
         IN  mergeNearMisses_overwrite(next, fb, nms, i + 1)

RECURSIVE mergeNearMisses(_, _, _, _)
mergeNearMisses(map, fb, nms, i) ==
    IF i > Len(nms) THEN map
    ELSE LET nm == nms[i]
             nk == keyOf(nm.pos)
             name == gridName(fb.grid, nm.pos.row, nm.pos.col)
             next == IF nk \in DOMAIN map
                     THEN [map EXCEPT ![nk].nearMisses = Append(@, nm.nearMiss)]
                     ELSE (nk :> [isWinner |-> FALSE,
                                  isMine |-> isMineName(fb.mySquareNames, name),
                                  nearMisses |-> << nm.nearMiss >>]) @@ map
         IN  mergeNearMisses(next, fb, nms, i + 1)

\* the result of the checkFullBoard call at scoring.ts line 136 (the local `result`)
fullBoardResult(b, st) ==
    LET qi == quarterIndex(b, st.quarter)
        qn == b.fullBoard[1].quarters[qi + 1]
    IN  checkFullBoard(qn, st.score.top, st.score.left,
                       b.config.topTeam, b.config.leftTeam)

EmptyMap == << >>

getFullBoardCellStatuses_noWinnerEntry(b, st) ==
    IF b.fullBoard = << >> THEN EmptyMap
    ELSE LET fb == b.fullBoard[1]
             result == fullBoardResult(b, st)
         IN  mergeNearMisses(EmptyMap, fb, result.nearMissPositions, 1)

getFullBoardCellStatuses_overwrite(b, st) ==
    IF b.fullBoard = << >> THEN EmptyMap
    ELSE LET fb == b.fullBoard[1]
             result == fullBoardResult(b, st)
             wk == keyOf(result.winnerPos)
             winName == gridName(fb.grid, result.winnerPos.row, result.winnerPos.col)
             map0 == (wk :> [isWinner |-> TRUE,
                             isMine |-> isMineName(fb.mySquareNames, winName),
                             nearMisses |-> << >>])
         IN  mergeNearMisses_overwrite(map0, fb, result.nearMissPositions, 1)

getFullBoardCellStatuses(b, st) ==
    IF b.fullBoard = << >> THEN EmptyMap
    ELSE LET fb == b.fullBoard[1]
             result == fullBoardResult(b, st)
             wk == keyOf(result.winnerPos)
             winName == gridName(fb.grid, result.winnerPos.row, result.winnerPos.col)
             map0 == (wk :> [isWinner |-> TRUE,
                             isMine |-> isMineName(fb.mySquareNames, winName),
                             nearMisses |-> << >>])
         IN  mergeNearMisses(map0, fb, result.nearMissPositions, 1)

\* -------------------------------------------------- where the engine throws

\* variant: the quarter read as a 1-based index
quartersAt_oneBased(quarters, qi) ==
    IF qi \in 1..Len(quarters) THEN << quarters[qi] >> ELSE << >>

\* quarters[qi]: undefined (absent) outside the array
quartersAt(quarters, qi) ==
    IF qi + 1 \in 1..Len(quarters) THEN << quarters[qi + 1] >> ELSE << >>

\* checkAllMySquares throws when sq.quarters[qi] is undefined: checkMySquare
\* reads digits.topDigits
checkAllMySquaresThrows(b, st) ==
    /\ b.mySquares # << >>
    /\ \E i \in 1..Len(b.mySquares[1]) :
           quartersAt(b.mySquares[1][i].quarters, quarterIndex(b, st.quarter)) = << >>

\* getFullBoardCellStatuses throws when fullBoard.quarters[qi] is undefined:
\* checkFullBoard reads qn.topNumbers
getFullBoardCellStatusesThrows(b, st) ==
    /\ b.fullBoard # << >>
    /\ quartersAt(b.fullBoard[1].quarters, quarterIndex(b, st.quarter)) = << >>

\* ------------------------------------------- boards handed to the engine

AxisSizes == {5, 10}

TopTeamName == <<"K","C">>
LeftTeamName == <<"S","F">>
PoolName == <<"P","o","o","l">>

ShiftGroup(g, k) == [i \in 1..Len(g) |-> (g[i] + k) % 10]

\* digit groups of one slot: 1 digit on a 10-slot axis, 2 distinct digits on a 5-slot axis
Groups(size) ==
    IF size = 10
    THEN { << s >> : s \in Seeds }
    ELSE { << s, (s + g) % 10 >> : s \in Seeds, g \in PairGaps }

QuartersCount(reroll) == IF reroll THEN 4 ELSE 1

\* NumSquares tracked squares; square i, quarter q carries the base groups shifted
MySquaresOf(t, l, reroll) ==
    [i \in 1..NumSquares |->
        [quarters |-> [q \in 1..QuartersCount(reroll) |->
            [topDigits |-> ShiftGroup(t, (i - 1) + (q - 1)),
             leftDigits |-> ShiftGroup(l, 2 * (i - 1) + 3 * (q - 1))]]]]

\* axis assignments: a 5-slot layout of tests/scoring.test.ts and one that pairs
\* d with d+4, repeats digits and leaves digits out; a 10-slot permutation and a
\* 10-slot layout that repeats digits and leaves digits out
Layouts5 ==
    { << <<0,3>>, <<1,9>>, <<2,8>>, <<4,6>>, <<5,7>> >>,
      << <<0,4>>, <<1,5>>, <<4,2>>, <<3,7>>, <<0,1>> >> }

Layouts10 ==
    { [i \in 1..10 |-> << (3 * (i - 1) + 7) % 10 >>],
      [i \in 1..10 |-> << (i - 1) % 5 >>] }

Layouts(size) == IF size = 10 THEN Layouts10 ELSE Layouts5

ShiftLayout(lay, k) == [i \in 1..Len(lay) |-> ShiftGroup(lay[i], k)]

OwnerNames == << <<"A","l">>, <<"b","o">>, <<"C","y">>, <<"D","i">>,
                 <<"E","d">>, <<"F","l","o">>, <<"G","u","s">> >>

GridOf(cols, rows) ==
    [r \in 1..rows |-> [c \in 1..cols |->
        OwnerNames[(((r - 1) * cols + (c - 1)) % Len(OwnerNames)) + 1]]]

MineNames == << <<"A","L">>, <<"c","y">>, <<"F","l","o">> >>

ConfigOf(cols, rows, reroll) ==
    [name |-> PoolName, buyIn |-> << 10 >>, cols |-> cols, rows |-> rows,
     reroll |-> reroll, topTeam |-> TopTeamName, leftTeam |-> LeftTeamName,
     payouts |-> << >>]

MySquareBoards ==
    UNION { { [config |-> ConfigOf(cols, rows, reroll),
               fullBoard |-> << >>,
               mySquares |-> << MySquaresOf(t, l, reroll) >>]
              : t \in Groups(cols), l \in Groups(rows) }
            : cols \in AxisSizes, rows \in AxisSizes, reroll \in BOOLEAN }

FullBoardsOf(cols, rows, reroll) ==
    { [config |-> ConfigOf(cols, rows, reroll),
       fullBoard |-> << [quarters |-> [q \in 1..QuartersCount(reroll) |->
                            [topNumbers |-> ShiftLayout(tl, q - 1),
                             leftNumbers |-> ShiftLayout(ll, 5 + 3 * (q - 1))]],
                         grid |-> GridOf(cols, rows),
                         mySquareNames |-> MineNames] >>,
       mySquares |-> << >>]
      : tl \in Layouts(cols), ll \in Layouts(rows) }

FullBoards ==
    UNION { FullBoardsOf(cols, rows, reroll)
            : cols \in AxisSizes, rows \in AxisSizes, reroll \in BOOLEAN }

\* ------------------------------------------------ the scoring loop (Spec)

\* displayAllBoards: my-squares boards are shown by checkAllMySquares, full
\* boards by getFullBoardCellStatuses
\* variant: the map of the call before is filled in again
Display_reusedMap(b, st) ==
    /\ statuses' = checkAllMySquares(b, st)
    /\ fbStatus' = IF b.fullBoard = << >> THEN << >> ELSE << fullBoardResult(b, st) >>
    /\ cells' = getFullBoardCellStatuses(b, st) @@ cells

Display(b, st) ==
    /\ statuses' = checkAllMySquares(b, st)
    /\ fbStatus' = IF b.fullBoard = << >> THEN << >> ELSE << fullBoardResult(b, st) >>
    /\ cells' = getFullBoardCellStatuses(b, st)

InitState == [quarter |-> 0, score |-> [top |-> 0, left |-> 0]]

\* no board list is being written out or read back
RTIdle == [pc |-> "idle", boards |-> << >>, text |-> << >>, parsed |-> << >>]

\* no entry point is being called
CallIdle == [fn |-> "none", arg |-> << >>, src |-> << >>, done |-> TRUE, result |-> << >>]

Init ==
    /\ board \in MySquareBoards \cup FullBoards
    /\ rt = RTIdle
    /\ call = CallIdle
    /\ state = InitState
    /\ statuses = checkAllMySquares(board, InitState)
    /\ fbStatus = IF board.fullBoard = << >> THEN << >>
                  ELSE << fullBoardResult(board, InitState) >>
    /\ cells = getFullBoardCellStatuses(board, InitState)

\* "14 7" at the Score> prompt / the web score inputs
UpdateScore ==
    \E t \in Scores, l \in Scores :
        /\ \E p \in Plays : \/ t = state.score.top + p /\ l = state.score.left
                            \/ t = state.score.top /\ l = state.score.left + p
        /\ state' = [state EXCEPT !.score = [top |-> t, left |-> l]]
        /\ Display(board, state')
        /\ UNCHANGED << board, rt, call >>

\* variant: the quarter advanced by two
NextQuarter_byTwo ==
    /\ state.quarter < 2
    /\ state' = [state EXCEPT !.quarter = @ + 2]
    /\ Display(board, state')
    /\ UNCHANGED << board, rt, call >>

\* "q" / "quarter" at the Score> prompt, the web Next Quarter button
NextQuarter ==
    /\ state.quarter < 3
    /\ state' = [state EXCEPT !.quarter = @ + 1]
    /\ Display(board, state')
    /\ UNCHANGED << board, rt, call >>

\* the web Prev Quarter button
PrevQuarter ==
    /\ state.quarter > 0
    /\ state' = [state EXCEPT !.quarter = @ - 1]
    /\ Display(board, state')
    /\ UNCHANGED << board, rt, call >>

Next == UpdateScore \/ NextQuarter \/ PrevQuarter

Spec == Init /\ [][Next]_vars

\* ------------------------------------------------- properties of scoring

\* what the claims read off the state
ElemsOf(ds) == { ds[k] : k \in 1..Len(ds) }
IsMyBoard == board.mySquares # << >>
IsFullBoard == board.fullBoard # << >>
ActiveIdx == IF board.config.reroll THEN state.quarter + 1 ELSE 1
ActiveDigits(i) == board.mySquares[1][i].quarters[ActiveIdx]
ActiveNumbers == board.fullBoard[1].quarters[ActiveIdx]
TopLast == lastDigit(state.score.top)
LeftLast == lastDigit(state.score.left)
HasNear(nms, team, p) == \E k \in 1..Len(nms) : nms[k] = [team |-> team, points |-> p]
\* least 0-based index of a group holding d, -1 when none holds it
FirstSlot(numbers, d) ==
    LET hits == { i \in 1..Len(numbers) : d \in ElemsOf(numbers[i]) }
    IN  IF hits = {} THEN -1
        ELSE (CHOOSE i \in hits : \A j \in hits : i <= j) - 1

\* C2: winner exclusivity: whenever checkMySquare reports isWinner, its
\* nearMisses list is empty
C2_WinnerExclusive ==
    \A i \in 1..Len(statuses) :
        statuses[i].isWinner => statuses[i].nearMisses = << >>

\* a winning square on a 5-slot axis whose slot also holds the +3 digit
C2_Witness ==
    /\ IsMyBoard
    /\ \E i \in 1..Len(statuses) :
          /\ statuses[i].isWinner
          /\ Len(ActiveDigits(i).topDigits) = 2
          /\ lastDigit(state.score.top + 3) \in ElemsOf(ActiveDigits(i).topDigits)

\* C3: isWinner holds exactly when the last digit of the top score is one of
\* topDigits and the last digit of the left score is one of leftDigits
C3_WinnerIff ==
    IsMyBoard =>
        \A i \in 1..Len(statuses) :
            statuses[i].isWinner <=>
                (TopLast \in ElemsOf(ActiveDigits(i).topDigits)
                 /\ LeftLast \in ElemsOf(ActiveDigits(i).leftDigits))

\* a winner matched through the second digit of a two-digit group, and in the
\* same state a square that matches on one axis only
C3_Witness ==
    /\ IsMyBoard
    /\ \E i \in 1..Len(statuses) :
          /\ statuses[i].isWinner
          /\ Len(ActiveDigits(i).topDigits) = 2
          /\ ActiveDigits(i).topDigits[2] = TopLast
    /\ \E j \in 1..Len(statuses) :
          /\ ~statuses[j].isWinner
          /\ TopLast \in ElemsOf(ActiveDigits(j).topDigits)

\* C4: a square that is not a winner lists {topTeam, p} exactly when the top
\* score + p lands in topDigits while the left score matches, {leftTeam, p}
\* exactly when the left score + p lands in leftDigits while the top score
\* matches, for p in {3, 7}, and lists nothing else
C4_NearMissIff ==
    IsMyBoard =>
        \A i \in 1..Len(statuses) :
            ~statuses[i].isWinner =>
                LET nms == statuses[i].nearMisses
                    d == ActiveDigits(i)
                IN  /\ \A p \in {3, 7} :
                          /\ HasNear(nms, board.config.topTeam, p) <=>
                                (lastDigit(state.score.top + p) \in ElemsOf(d.topDigits)
                                 /\ LeftLast \in ElemsOf(d.leftDigits))
                          /\ HasNear(nms, board.config.leftTeam, p) <=>
                                (TopLast \in ElemsOf(d.topDigits)
                                 /\ lastDigit(state.score.left + p) \in ElemsOf(d.leftDigits))
                    /\ \A k \in 1..Len(nms) :
                          /\ nms[k].team \in {board.config.topTeam, board.config.leftTeam}
                          /\ nms[k].points \in {3, 7}
                    /\ \A k1, k2 \in 1..Len(nms) : nms[k1] = nms[k2] => k1 = k2

\* a square one left-team play away, beside a square whose top digits do hold
\* the +3 digit but whose left digits do not match (so nothing is listed)
C4_Witness ==
    /\ IsMyBoard
    /\ \E i \in 1..Len(statuses) :
          HasNear(statuses[i].nearMisses, board.config.leftTeam, 7)
    /\ \E j \in 1..Len(statuses) :
          /\ statuses[j].nearMisses = << >>
          /\ ~statuses[j].isWinner
          /\ lastDigit(state.score.top + 3) \in ElemsOf(ActiveDigits(j).topDigits)

\* C5: winnerPos is {row: first index of leftNumbers holding the left last
\* digit, col: first index of topNumbers holding the top last digit}, -1 on an
\* axis where no group holds the digit
C5_WinnerPos ==
    IsFullBoard =>
        fbStatus[1].winnerPos =
            [row |-> FirstSlot(ActiveNumbers.leftNumbers, LeftLast),
             col |-> FirstSlot(ActiveNumbers.topNumbers, TopLast)]

\* a mixed board where the top digit sits in two slots and the left digit in none
C5_Witness ==
    /\ IsFullBoard
    /\ board.config.cols = 5 /\ board.config.rows = 10
    /\ Cardinality({ i \in 1..5 : TopLast \in ElemsOf(ActiveNumbers.topNumbers[i]) }) = 2
    /\ fbStatus[1].winnerPos.col >= 0
    /\ fbStatus[1].winnerPos.row = -1

\* C6: for p in {3, 7} a top-team near miss is emitted exactly when the column
\* of the top score + p exists and differs from winCol, at {row: winRow, col:
\* that column}; a left-team near miss exactly when the row of the left score
\* + p exists and differs from winRow, at {row: that row, col: winCol}; no
\* emitted position equals winnerPos
C6_SameSlotSuppression ==
    IsFullBoard =>
        LET r == fbStatus[1]
            nms == r.nearMissPositions
            winRow == r.winnerPos.row
            winCol == r.winnerPos.col
            at(team, p) == { k \in 1..Len(nms) : nms[k].nearMiss = [team |-> team, points |-> p] }
        IN  /\ \A p \in {3, 7} :
                  LET nearCol == FirstSlot(ActiveNumbers.topNumbers, lastDigit(state.score.top + p))
                      nearRow == FirstSlot(ActiveNumbers.leftNumbers, lastDigit(state.score.left + p))
                  IN  /\ (at(board.config.topTeam, p) # {}) <=> (nearCol # -1 /\ nearCol # winCol)
                      /\ \A k \in at(board.config.topTeam, p) :
                            nms[k].pos = [row |-> winRow, col |-> nearCol]
                      /\ (at(board.config.leftTeam, p) # {}) <=> (nearRow # -1 /\ nearRow # winRow)
                      /\ \A k \in at(board.config.leftTeam, p) :
                            nms[k].pos = [row |-> nearRow, col |-> winCol]
            /\ \A k \in 1..Len(nms) :
                  /\ nms[k].pos # r.winnerPos
                  /\ nms[k].nearMiss.team \in {board.config.topTeam, board.config.leftTeam}
                  /\ nms[k].nearMiss.points \in {3, 7}

\* a 5-slot top axis where +3 stays in the winning slot (suppressed) while +7
\* leaves it (emitted)
C6_Witness ==
    /\ IsFullBoard
    /\ board.config.cols = 5
    /\ fbStatus[1].winnerPos.col >= 0
    /\ FirstSlot(ActiveNumbers.topNumbers, lastDigit(state.score.top + 3)) = fbStatus[1].winnerPos.col
    /\ ~\E k \in 1..Len(fbStatus[1].nearMissPositions) :
          fbStatus[1].nearMissPositions[k].nearMiss = [team |-> board.config.topTeam, points |-> 3]
    /\ \E k \in 1..Len(fbStatus[1].nearMissPositions) :
          fbStatus[1].nearMissPositions[k].nearMiss = [team |-> board.config.topTeam, points |-> 7]

\* C7: for a board with fullBoard data the map has an entry keyed by
\* checkFullBoard's winnerPos with isWinner = true, near misses or not
C7_WinnerPresent ==
    IsFullBoard =>
        /\ keyOf(fbStatus[1].winnerPos) \in DOMAIN cells
        /\ cells[keyOf(fbStatus[1].winnerPos)].isWinner

\* the winner cell is the only entry: no near miss exists
C7_Witness ==
    /\ IsFullBoard
    /\ fbStatus[1].nearMissPositions = << >>
    /\ DOMAIN cells = { keyOf(fbStatus[1].winnerPos) }

\* C8: the map's keys are the winner cell and the near-miss cells; each entry
\* lists exactly the near misses emitted for its position, each once, so two
\* near misses at one position share one entry
C8_MergeByCell ==
    IsFullBoard =>
        LET r == fbStatus[1]
            nms == r.nearMissPositions
            atKey(key) == { j \in 1..Len(nms) : keyOf(nms[j].pos) = key }
        IN  /\ DOMAIN cells = { keyOf(r.winnerPos) } \cup { keyOf(nms[j].pos) : j \in 1..Len(nms) }
            /\ \A key \in DOMAIN cells :
                  /\ Len(cells[key].nearMisses) = Cardinality(atKey(key))
                  /\ \A j \in atKey(key) :
                        Cardinality({ k \in 1..Len(cells[key].nearMisses) :
                                        cells[key].nearMisses[k] = nms[j].nearMiss }) = 1

\* +3 and +7 of one team land in the same two-digit slot
C8_Witness ==
    /\ IsFullBoard
    /\ \E key \in DOMAIN cells :
          /\ Len(cells[key].nearMisses) = 2
          /\ cells[key].nearMisses[1].team = cells[key].nearMisses[2].team

\* C9: quarterIndex is 0 for every quarter 0..3 of a non-reroll board and the
\* quarter itself on a reroll board, so it always indexes quarters
C9_QuarterIndex ==
    /\ \A q \in 0..3 :
          /\ ~board.config.reroll => quarterIndex(board, q) = 0
          /\ board.config.reroll => quarterIndex(board, q) = q
    /\ LET n == IF IsFullBoard THEN Len(board.fullBoard[1].quarters)
                ELSE Len(board.mySquares[1][1].quarters)
       IN  quarterIndex(board, state.quarter) \in 0..(n - 1)

\* a non-reroll board shown in the last quarter
C9_Witness ==
    /\ ~board.config.reroll
    /\ state.quarter = 3
    /\ IsFullBoard
    /\ fbStatus[1] = checkFullBoard(board.fullBoard[1].quarters[1],
                                    state.score.top, state.score.left,
                                    board.config.topTeam, board.config.leftTeam)

\* C10: checkAllMySquares is parallel to mySquares: element i is checkMySquare
\* on square i's digits of quarterIndex(board, state.quarter); empty when the
\* board has no mySquares
C10_ParallelStatuses ==
    /\ ~IsMyBoard => statuses = << >>
    /\ IsMyBoard =>
          /\ Len(statuses) = Len(board.mySquares[1])
          /\ \A i \in 1..Len(statuses) :
                statuses[i] = checkMySquare(ActiveDigits(i),
                                            state.score.top, state.score.left,
                                            board.config.topTeam, board.config.leftTeam)

\* on a reroll board a later quarter's digits decide: the result differs from
\* what the first quarter's digits would give at the same score
C10_Witness ==
    /\ IsMyBoard
    /\ board.config.reroll
    /\ state.quarter = 2
    /\ \E i \in 1..Len(statuses) :
          /\ statuses[i].isWinner
          /\ ~checkMySquare(board.mySquares[1][i].quarters[1],
                            state.score.top, state.score.left,
                            board.config.topTeam, board.config.leftTeam).isWinner


\* =================================================================== text

DigitChars == <<"0","1","2","3","4","5","6","7","8","9">>

isDigitChar(c) == \E d \in 1..10 : DigitChars[d] = c

digitValue(c) == (CHOOSE d \in 1..10 : DigitChars[d] = c) - 1

\* String(n) of a non-negative integer, as template literals and join() print it
RECURSIVE numberToString(_)
numberToString(n) ==
    IF n < 10 THEN << DigitChars[n + 1] >>
    ELSE numberToString(n \div 10) \o << DigitChars[(n % 10) + 1] >>

\* Array.prototype.join
RECURSIVE join(_, _)
join(parts, sep) ==
    IF Len(parts) = 0 THEN << >>
    ELSE IF Len(parts) = 1 THEN parts[1]
    ELSE parts[1] \o sep \o join(Tail(parts), sep)

mapSeq(f(_), s) == [i \in 1..Len(s) |-> f(s[i])]

\* ------------------------------------------------------------- serializer

formatDigits_asNumber(digits) ==
    IF Len(digits) = 2
    THEN numberToString(10 * digits[1] + digits[2])
    ELSE numberToString(digits[1])

formatDigits(digits) ==
    IF Len(digits) = 2
    THEN numberToString(digits[1]) \o numberToString(digits[2])
    ELSE numberToString(digits[1])

serializeMySquares(squares, config) ==
    [i \in 1..Len(squares) |->
        LET sq == squares[i]
        IN  IF config.reroll
            THEN LET topParts == [q \in 1..Len(sq.quarters) |-> formatDigits(sq.quarters[q].topDigits)]
                     leftParts == [q \in 1..Len(sq.quarters) |-> formatDigits(sq.quarters[q].leftDigits)]
                 IN  config.topTeam \o <<" ">> \o join(topParts, <<" ">>) \o <<","," ">>
                     \o config.leftTeam \o <<" ">> \o join(leftParts, <<" ">>)
            ELSE LET q == sq.quarters[1]
                 IN  config.topTeam \o <<" ">> \o formatDigits(q.topDigits) \o <<","," ">>
                     \o config.leftTeam \o <<" ">> \o formatDigits(q.leftDigits)]

serializeFullBoard(fb, config) ==
    LET numberLines ==
            IF Len(fb.quarters) = 1
            THEN LET qn == fb.quarters[1]
                 IN  << <<"T","o","p"," ">> \o config.topTeam \o <<" ">>
                            \o join(mapSeq(formatDigits, qn.topNumbers), <<" ">>),
                        <<"L","e","f","t"," ">> \o config.leftTeam \o <<" ">>
                            \o join(mapSeq(formatDigits, qn.leftNumbers), <<" ">>) >>
            ELSE [q \in 1..Len(fb.quarters) |->
                    LET qn == fb.quarters[q]
                    IN  <<"Q">> \o numberToString(q) \o <<" ","T","o","p"," ">>
                        \o join(mapSeq(formatDigits, qn.topNumbers), <<" ">>)
                        \o <<","," ","L","e","f","t"," ">>
                        \o join(mapSeq(formatDigits, qn.leftNumbers), <<" ">>)]
        gridLines == [r \in 1..Len(fb.grid) |-> join(fb.grid[r], <<","," ">>)]
        mineLines == IF Len(fb.mySquareNames) > 0
                     THEN << <<"M","i","n","e"," ">> \o join(fb.mySquareNames, <<","," ">>) >>
                     ELSE << >>
    IN  numberLines \o gridLines \o mineLines

serializeBoard(b) ==
    LET c == b.config
        header == c.name
                  \o (IF c.buyIn # << >> THEN <<" ","$">> \o numberToString(c.buyIn[1]) ELSE << >>)
                  \o <<" ">> \o numberToString(c.cols) \o <<"x">> \o numberToString(c.rows)
                  \o (IF c.reroll THEN <<" ","r","e","r","o","l","l">> ELSE << >>)
                  \o (IF b.fullBoard # << >> THEN <<" ","f","u","l","l">> ELSE << >>)
        teams == IF b.fullBoard # << >>
                 THEN c.topTeam \o <<" ","(","t","o","p",")"," ","v","s"," ">> \o c.leftTeam \o <<" ","(","l","e","f","t",")">>
                 ELSE c.topTeam \o <<" ","v","s"," ">> \o c.leftTeam
        payouts == IF c.payouts # << >> /\ Len(c.payouts[1]) > 0
                   THEN << <<"P","a","y","o","u","t","s"," ">> \o join(mapSeq(numberToString, c.payouts[1]), <<" ">>) >>
                   ELSE << >>
        data == IF b.fullBoard # << >> THEN serializeFullBoard(b.fullBoard[1], c)
                ELSE IF b.mySquares # << >> THEN serializeMySquares(b.mySquares[1], c)
                ELSE << >>
    IN  join(<< header, teams >> \o payouts \o data, <<"\n">>)

serializeBoards(boards) == join(mapSeq(serializeBoard, boards), <<"\n","-","-","-","\n">>)


\* --------------------------------------------------------- string helpers

\* \s within the characters the model writes
isSpaceChar(c) == c \in {" ", "\t", "\n"}

\* \w
isWordChar(c) ==
    \/ isDigitChar(c)
    \/ c = "_"
    \/ \E i \in 1..26 : UpperChars[i] = c \/ LowerChars[i] = c

\* \b before the 1-based index i (i = Len(s) + 1 is the end of the string)
wordBoundary(s, i) ==
    LET before == i > 1 /\ isWordChar(s[i - 1])
        after == i <= Len(s) /\ isWordChar(s[i])
    IN  before # after

\* the literal lit (lower case) matches s at index i, ignoring case
matchesAtCI(s, i, lit) ==
    /\ i >= 1
    /\ i + Len(lit) - 1 <= Len(s)
    /\ \A k \in 1..Len(lit) : toLowerChar(s[i + k - 1]) = toLowerChar(lit[k])

\* first index >= i that holds no whitespace (Len(s) + 1 when none): a greedy \s*
RECURSIVE skipSpaces(_, _)
skipSpaces(s, i) ==
    IF i <= Len(s) /\ isSpaceChar(s[i]) THEN skipSpaces(s, i + 1) ELSE i

\* first index >= i that holds no digit: a greedy \d*
RECURSIVE skipDigits(_, _)
skipDigits(s, i) ==
    IF i <= Len(s) /\ isDigitChar(s[i]) THEN skipDigits(s, i + 1) ELSE i

\* last index <= i that holds no whitespace (0 when none)
RECURSIVE skipSpacesBack(_, _)
skipSpacesBack(s, i) ==
    IF i >= 1 /\ isSpaceChar(s[i]) THEN skipSpacesBack(s, i - 1) ELSE i

\* String.prototype.substring(from, to) with 0-based from (inclusive), to (exclusive)
substring(s, from, to) == SubSeq(s, from + 1, to)

\* String.prototype.trim
trim(s) ==
    LET a == skipSpaces(s, 1)
        b == skipSpacesBack(s, Len(s))
    IN  IF a > b THEN << >> ELSE SubSeq(s, a, b)

\* least i in a..b with P(i), 0 when none
firstIndexFrom(P(_), a, b) ==
    IF \E i \in a..b : P(i)
    THEN CHOOSE i \in a..b : P(i) /\ \A j \in a..(i - 1) : ~P(j)
    ELSE 0

\* first index >= i holding the character c, 0 when none
indexOfChar(s, c, i) == firstIndexFrom(LAMBDA j : s[j] = c, i, Len(s))

\* String.prototype.split on a one-character separator, from index i on
RECURSIVE splitCharFrom(_, _, _)
splitCharFrom(s, c, i) ==
    LET j == indexOfChar(s, c, i)
    IN  IF j = 0 THEN << SubSeq(s, i, Len(s)) >>
        ELSE << SubSeq(s, i, j - 1) >> \o splitCharFrom(s, c, j + 1)

splitChar(s, c) == splitCharFrom(s, c, 1)

\* first index >= i that holds whitespace, Len(s) + 1 when none
RECURSIVE skipNonSpaces(_, _)
skipNonSpaces(s, i) ==
    IF i <= Len(s) /\ ~isSpaceChar(s[i]) THEN skipNonSpaces(s, i + 1) ELSE i

\* String.prototype.split(/\s+/), from index i on: a leading or trailing run of
\* whitespace leaves an empty string at that end, as in JavaScript
RECURSIVE splitSpacesFrom(_, _)
splitSpacesFrom(s, i) ==
    LET j == skipNonSpaces(s, i)
    IN  IF j > Len(s) THEN << SubSeq(s, i, Len(s)) >>
        ELSE << SubSeq(s, i, j - 1) >> \o splitSpacesFrom(s, skipSpaces(s, j))

splitSpaces(s) == splitSpacesFrom(s, 1)

\* Array.prototype.filter(x => x.length > 0)
RECURSIVE filterNonEmpty(_)
filterNonEmpty(parts) ==
    IF Len(parts) = 0 THEN << >>
    ELSE IF Len(Head(parts)) > 0 THEN << Head(parts) >> \o filterNonEmpty(Tail(parts))
    ELSE filterNonEmpty(Tail(parts))

\* s has the literal lit somewhere, ignoring case: /lit/i.test(s)
containsCI(s, lit) == \E i \in 1..Len(s) : matchesAtCI(s, i, lit)

\* parseInt(s) for a string of decimal digits
RECURSIVE digitsValue(_, _, _)
digitsValue(s, i, acc) ==
    IF i > Len(s) \/ ~isDigitChar(s[i]) THEN acc
    ELSE digitsValue(s, i + 1, 10 * acc + digitValue(s[i]))


\* ------------------------------------------------------ results of parsing

\* a parse either yields a value or throws an Error
Ok(v) == [ok |-> TRUE, val |-> v]
Thrown == [ok |-> FALSE, val |-> << >>]

\* -------------------------------------------------------- digit-group codec

parseDigitGroup_sorted(g) ==
    IF Len(g) = 1 /\ isDigitChar(g[1]) THEN Ok(<< digitValue(g[1]) >>)
    ELSE IF Len(g) = 2 /\ isDigitChar(g[1]) /\ isDigitChar(g[2])
    THEN IF digitValue(g[1]) <= digitValue(g[2])
         THEN Ok(<< digitValue(g[1]), digitValue(g[2]) >>)
         ELSE Ok(<< digitValue(g[2]), digitValue(g[1]) >>)
    ELSE Thrown

parseDigitGroup(g) ==
    IF Len(g) = 1 /\ isDigitChar(g[1]) THEN Ok(<< digitValue(g[1]) >>)
    ELSE IF Len(g) = 2 /\ isDigitChar(g[1]) /\ isDigitChar(g[2])
    THEN Ok(<< digitValue(g[1]), digitValue(g[2]) >>)
    ELSE Thrown

\* tokens.map(parseDigitGroup): throws when any token does
parseDigitGroups(tokens) ==
    IF \E i \in 1..Len(tokens) : ~parseDigitGroup(tokens[i]).ok THEN Thrown
    ELSE Ok([i \in 1..Len(tokens) |-> parseDigitGroup(tokens[i]).val])

\* ------------------------------------------------------------------ header

\* least i in 1..n with P(i), 0 when none
firstIndexWhere(P(_), n) == firstIndexFrom(P, 1, n)

\* s with s[i..j] replaced by rep
replaceRange(s, i, j, rep) == SubSeq(s, 1, i - 1) \o rep \o SubSeq(s, j + 1, Len(s))

\* /\$(\d+)/ at index i
buyInAt(s, i) == s[i] = "$" /\ i + 1 <= Len(s) /\ isDigitChar(s[i + 1])

\* length of (5|10) at index i, 0 when neither
axisTokenLen(s, i) ==
    IF matchesAtCI(s, i, <<"5">>) THEN 1
    ELSE IF matchesAtCI(s, i, <<"1","0">>) THEN 2
    ELSE 0

\* /\b(5|10)\s*x\s*(5|10)\b/i at index i: the index after the match, 0 when none
dimEndAt(s, i) ==
    LET n1 == axisTokenLen(s, i)
        j == skipSpaces(s, i + n1)
        k == skipSpaces(s, j + 1)
        n2 == axisTokenLen(s, k)
    IN  IF /\ wordBoundary(s, i)
           /\ n1 > 0
           /\ matchesAtCI(s, j, <<"x">>)
           /\ n2 > 0
           /\ wordBoundary(s, k + n2)
        THEN k + n2 ELSE 0

\* length of (25|50|100) at index i, 0 when none
squaresTokenLen(s, i) ==
    IF matchesAtCI(s, i, <<"2","5">>) \/ matchesAtCI(s, i, <<"5","0">>) THEN 2
    ELSE IF matchesAtCI(s, i, <<"1","0","0">>) THEN 3
    ELSE 0

\* /\b(25|50|100)\s*squares?\b/i at index i: the index after the match, 0 when none
squaresEndAt(s, i) ==
    LET n == squaresTokenLen(s, i)
        j == skipSpaces(s, i + n)
        e == IF matchesAtCI(s, j + 6, <<"s">>) /\ wordBoundary(s, j + 7) THEN j + 7
             ELSE IF wordBoundary(s, j + 6) THEN j + 6
             ELSE 0
    IN  IF wordBoundary(s, i) /\ n > 0 /\ matchesAtCI(s, j, <<"s","q","u","a","r","e">>)
        THEN e ELSE 0

\* /\bre-?roll\b/i at index i: the index after the match, 0 when none
rerollEndAt(s, i) ==
    LET j == IF matchesAtCI(s, i + 2, <<"-">>) THEN i + 3 ELSE i + 2
    IN  IF /\ wordBoundary(s, i)
           /\ matchesAtCI(s, i, <<"r","e">>)
           /\ matchesAtCI(s, j, <<"r","o","l","l">>)
           /\ wordBoundary(s, j + 4)
        THEN j + 4 ELSE 0

\* /\bfull\b/i at index i: the index after the match, 0 when none
fullEndAt(s, i) ==
    IF wordBoundary(s, i) /\ matchesAtCI(s, i, <<"f","u","l","l">>) /\ wordBoundary(s, i + 4)
    THEN i + 4 ELSE 0

\* rest.replace(/\bre-?roll\b/gi, ' '), from index i on
RECURSIVE replaceReroll(_, _)
replaceReroll(s, i) ==
    IF i > Len(s) THEN << >>
    ELSE IF rerollEndAt(s, i) > 0 THEN <<" ">> \o replaceReroll(s, rerollEndAt(s, i))
    ELSE << s[i] >> \o replaceReroll(s, i + 1)

\* rest.replace(/\bfull\b/gi, ' '), from index i on
RECURSIVE replaceFull(_, _)
replaceFull(s, i) ==
    IF i > Len(s) THEN << >>
    ELSE IF fullEndAt(s, i) > 0 THEN <<" ">> \o replaceFull(s, fullEndAt(s, i))
    ELSE << s[i] >> \o replaceFull(s, i + 1)

\* rest.replace(/\s+/g, ' '), from index i on
RECURSIVE collapseSpaces(_, _)
collapseSpaces(s, i) ==
    IF i > Len(s) THEN << >>
    ELSE IF isSpaceChar(s[i]) THEN <<" ">> \o collapseSpaces(s, skipSpaces(s, i))
    ELSE << s[i] >> \o collapseSpaces(s, i + 1)

DefaultBoardName == <<"B","o","a","r","d">>

\* let name = rest.replace(/\s+/g, ' ').trim(); if (!name) name = 'Board'
boardName(name) == IF name = << >> THEN DefaultBoardName ELSE name

\* the header once buy-in and size are cut out of the line: reroll is tested
\* on the rest, and the rest without reroll and full names the board
\* variant: the full keyword stays in the name
headerOf_keepFull(buyIn, cols, rows, rest) ==
    [name |-> boardName(trim(collapseSpaces(replaceReroll(rest, 1), 1))),
     buyIn |-> buyIn, cols |-> cols, rows |-> rows,
     reroll |-> \E i \in 1..Len(rest) : rerollEndAt(rest, i) > 0,
     topTeam |-> << >>, leftTeam |-> << >>, payouts |-> << >>]

headerOf(buyIn, cols, rows, rest) ==
    [name |-> boardName(trim(collapseSpaces(replaceFull(replaceReroll(rest, 1), 1), 1))),
     buyIn |-> buyIn, cols |-> cols, rows |-> rows,
     reroll |-> \E i \in 1..Len(rest) : rerollEndAt(rest, i) > 0,
     topTeam |-> << >>, leftTeam |-> << >>, payouts |-> << >>]

\* dimMatch at dimAt, ending before dimEnd
headerWithDim(buyIn, rest, dimAt, dimEnd) ==
    headerOf(buyIn,
             IF axisTokenLen(rest, dimAt) = 1 THEN 5 ELSE 10,
             IF isDigitChar(rest[dimEnd - 2]) THEN 10 ELSE 5,
             replaceRange(rest, dimAt, dimEnd - 1, <<" ">>))

\* sqMatch at sqAt, of total squares
\* variant: 50 squares read as 10 columns by 5 rows
headerWithSquares_wide(buyIn, rest, sqAt, total) ==
    headerOf(buyIn,
             IF total = 25 THEN 5 ELSE 10,
             IF total = 100 THEN 10 ELSE 5,
             replaceRange(rest, sqAt, squaresEndAt(rest, sqAt) - 1, <<" ">>))

headerWithSquares(buyIn, rest, sqAt, total) ==
    headerOf(buyIn,
             IF total = 100 THEN 10 ELSE 5,
             IF total = 25 THEN 5 ELSE 10,
             replaceRange(rest, sqAt, squaresEndAt(rest, sqAt) - 1, <<" ">>))

headerSquares(buyIn, rest, sqAt) ==
    IF sqAt > 0 THEN headerWithSquares(buyIn, rest, sqAt, digitsValue(rest, sqAt, 0))
    ELSE headerOf(buyIn, 10, 10, rest)

\* Extract size: NxN, else N squares
headerSize(buyIn, rest, dimAt) ==
    IF dimAt > 0 THEN headerWithDim(buyIn, rest, dimAt, dimEndAt(rest, dimAt))
    ELSE headerSquares(buyIn, rest,
                       firstIndexWhere(LAMBDA i : squaresEndAt(rest, i) > 0, Len(rest)))

headerRest(buyIn, rest) ==
    headerSize(buyIn, rest, firstIndexWhere(LAMBDA i : dimEndAt(rest, i) > 0, Len(rest)))

\* Extract buy-in ($N): buyMatch at buyAt
headerBuyIn(line, buyAt) ==
    IF buyAt > 0
    THEN headerRest(<< digitsValue(line, buyAt + 1, 0) >>,
                    replaceRange(line, buyAt, skipDigits(line, buyAt + 1) - 1, <<" ">>))
    ELSE headerRest(<< >>, line)

parseHeader(line) ==
    headerBuyIn(line, firstIndexWhere(LAMBDA i : buyInAt(line, i), Len(line)))


\* ------------------------------------------------------------------- teams

\* the tail of /(.+?)\s+vs\.?\s+(.+)/i after "vs" at v..v+1: \.?\s+(.+) from
\* index a on; the index where group 2 starts, 0 when the tail does not match
teamsTailFrom(s, a) ==
    LET w == skipSpaces(s, a)
    IN  IF a > Len(s) \/ ~isSpaceChar(s[a]) THEN 0
        ELSE IF w <= Len(s) THEN w
        ELSE IF w - a >= 2 THEN Len(s)
        ELSE 0

teamsTail(s, v) ==
    LET withDot == IF matchesAtCI(s, v + 2, <<".">>) THEN teamsTailFrom(s, v + 3) ELSE 0
    IN  IF withDot > 0 THEN withDot ELSE teamsTailFrom(s, v + 2)

\* group 1 of the match is s[1..e]: \s+ runs from e + 1 up to "vs"
teamsSplitAt(s, e) ==
    LET v == skipSpaces(s, e + 1)
    IN  /\ e + 1 <= Len(s)
        /\ isSpaceChar(s[e + 1])
        /\ matchesAtCI(s, v, <<"v","s">>)
        /\ teamsTail(s, v) > 0

\* s.replace(/\s*\((top|left)\)\s*/gi, ''), from index i on
annotationEndAt(s, i) ==
    LET j == skipSpaces(s, i)
    IN  IF matchesAtCI(s, j, <<"(","t","o","p",")">>) THEN skipSpaces(s, j + 5)
        ELSE IF matchesAtCI(s, j, <<"(","l","e","f","t",")">>) THEN skipSpaces(s, j + 6)
        ELSE 0

RECURSIVE removeAnnotations(_, _)
removeAnnotations(s, i) ==
    IF i > Len(s) THEN << >>
    ELSE IF annotationEndAt(s, i) > 0 THEN removeAnnotations(s, annotationEndAt(s, i))
    ELSE << s[i] >> \o removeAnnotations(s, i + 1)

clean(s) == trim(removeAnnotations(s, 1))

teamsOf_positional(t1, t2) == Ok([topTeam |-> clean(t1), leftTeam |-> clean(t2)])

\* the teams of the trimmed groups t1, t2 of vsMatch
teamsOf(t1, t2) ==
    IF containsCI(t1, <<"(","l","e","f","t",")">>) \/ containsCI(t2, <<"(","t","o","p",")">>)
    THEN Ok([topTeam |-> clean(t2), leftTeam |-> clean(t1)])
    ELSE Ok([topTeam |-> clean(t1), leftTeam |-> clean(t2)])

\* vsMatch with group 1 ending at e (0: no match)
teamsAt(line, e) ==
    IF e = 0 THEN Thrown
    ELSE teamsOf(trim(SubSeq(line, 1, e)),
                 trim(SubSeq(line, teamsTail(line, skipSpaces(line, e + 1)), Len(line))))

parseTeamsLine(line) ==
    teamsAt(line, firstIndexWhere(LAMBDA i : teamsSplitAt(line, i), Len(line)))

\* ----------------------------------------------------------------- payouts

hexDigits == <<"0","1","2","3","4","5","6","7","8","9","a","b","c","d","e","f">>

isHexChar(c) == \E d \in 1..16 : hexDigits[d] = toLowerChar(c)

hexValue(c) == (CHOOSE d \in 1..16 : hexDigits[d] = toLowerChar(c)) - 1

RECURSIVE hexDigitsValue(_, _, _)
hexDigitsValue(s, i, acc) ==
    IF i > Len(s) \/ ~isHexChar(s[i]) THEN acc
    ELSE hexDigitsValue(s, i + 1, 16 * acc + hexValue(s[i]))

\* parseInt(s) without a radix: leading whitespace, a sign, a 0x prefix; 0 or 1
\* numbers (none is NaN)
parseInt(s) ==
    LET a == skipSpaces(s, 1)
        neg == a <= Len(s) /\ s[a] = "-"
        b == IF a <= Len(s) /\ s[a] \in {"-", "+"} THEN a + 1 ELSE a
        hex == matchesAtCI(s, b, <<"0","x">>)
        mag == IF hex
               THEN (IF b + 2 <= Len(s) /\ isHexChar(s[b + 2])
                     THEN << hexDigitsValue(s, b + 2, 0) >> ELSE << >>)
               ELSE (IF b <= Len(s) /\ isDigitChar(s[b])
                     THEN << digitsValue(s, b, 0) >> ELSE << >>)
    IN  IF mag = << >> THEN << >>
        ELSE IF neg THEN << 0 - mag[1] >> ELSE mag

\* /^payouts?\b/i
isPayoutsLine(line) ==
    /\ matchesAtCI(line, 1, <<"p","a","y","o","u","t">>)
    /\ \/ matchesAtCI(line, 7, <<"s">>) /\ wordBoundary(line, 8)
       \/ wordBoundary(line, 7)

RECURSIVE concatAll(_)
concatAll(parts) == IF Len(parts) = 0 THEN << >> ELSE Head(parts) \o concatAll(Tail(parts))

\* /^payouts?\s+(.+)/i, then split, parseInt and drop NaN
parsePayoutsLine(line) ==
    LET a == IF matchesAtCI(line, 7, <<"s">>) /\ 8 <= Len(line) /\ isSpaceChar(line[8])
             THEN 8 ELSE 7
        w == skipSpaces(line, a)
        g == IF w <= Len(line) THEN w ELSE Len(line)
        matched == /\ matchesAtCI(line, 1, <<"p","a","y","o","u","t">>)
                   /\ a <= Len(line) /\ isSpaceChar(line[a])
                   /\ (w <= Len(line) \/ w - a >= 2)
    IN  IF ~matched THEN << >>
        ELSE concatAll(mapSeq(parseInt, splitSpaces(SubSeq(line, g, Len(line)))))

\* --------------------------------------------------------------- detection

\* /^top\s/i.test(first) || /^q[1-4]\s/i.test(first)
isFullBoardBlock(lines) ==
    LET first == lines[1]
    IN  \/ matchesAtCI(first, 1, <<"t","o","p">>) /\ 4 <= Len(first) /\ isSpaceChar(first[4])
        \/ /\ matchesAtCI(first, 1, <<"q">>)
           /\ 3 <= Len(first)
           /\ first[2] \in {"1", "2", "3", "4"}
           /\ isSpaceChar(first[3])


\* -------------------------------------------------------------- my squares

\* new RegExp(`,\s*${escapeRegex(leftTeam)}\b`, 'i') matches at the comma at m
teamSplitAt(line, leftTeam, m) ==
    /\ line[m] = ","
    /\ \E k \in (m + 1)..skipSpaces(line, m + 1) :
          /\ matchesAtCI(line, k, leftTeam)
          /\ wordBoundary(line, k + Len(leftTeam))

\* the 0-based index of the separating comma
findTeamSplitIndex(line, config) ==
    LET m == firstIndexWhere(LAMBDA i : teamSplitAt(line, config.leftTeam, i), Len(line))
        idx == indexOfChar(line, ",", 1)
    IN  IF m > 0 THEN Ok(m - 1)
        ELSE IF idx = 0 THEN Thrown
        ELSE Ok(idx - 1)

extractDigitGroups(part, teamName) ==
    IF /\ matchesAtCI(part, 1, teamName)
       /\ Len(teamName) + 1 <= Len(part)
       /\ isSpaceChar(part[Len(teamName) + 1])
    THEN parseDigitGroups(splitSpaces(trim(
             SubSeq(part, skipSpaces(part, Len(teamName) + 1), Len(part)))))
    ELSE parseDigitGroups(splitSpaces(trim(part)))

squareOf_firstGroups(config, topGroups, leftGroups) ==
    IF ~topGroups.ok \/ ~leftGroups.ok THEN Thrown
    ELSE IF config.reroll
    THEN IF Len(topGroups.val) < 4 \/ Len(leftGroups.val) < 4 THEN Thrown
         ELSE Ok([quarters |-> [q \in 1..4 |-> [topDigits |-> topGroups.val[q],
                                                leftDigits |-> leftGroups.val[q]]]])
    ELSE IF Len(topGroups.val) < 1 \/ Len(leftGroups.val) < 1 THEN Thrown
    ELSE Ok([quarters |-> << [topDigits |-> topGroups.val[1],
                              leftDigits |-> leftGroups.val[1]] >>])

\* the square of the digit groups of the two parts
squareOf(config, topGroups, leftGroups) ==
    IF ~topGroups.ok \/ ~leftGroups.ok THEN Thrown
    ELSE IF config.reroll
    THEN IF Len(topGroups.val) # 4 \/ Len(leftGroups.val) # 4 THEN Thrown
         ELSE Ok([quarters |-> [q \in 1..4 |-> [topDigits |-> topGroups.val[q],
                                                leftDigits |-> leftGroups.val[q]]]])
    ELSE IF Len(topGroups.val) # 1 \/ Len(leftGroups.val) # 1 THEN Thrown
    ELSE Ok([quarters |-> << [topDigits |-> topGroups.val[1],
                              leftDigits |-> leftGroups.val[1]] >>])

squareAt(line, config, comma) ==
    IF ~comma.ok THEN Thrown
    ELSE squareOf(config,
                  extractDigitGroups(trim(substring(line, 0, comma.val)), config.topTeam),
                  extractDigitGroups(trim(substring(line, comma.val + 1, Len(line))),
                                     config.leftTeam))

parseMySquareLine(line, config) == squareAt(line, config, findTeamSplitIndex(line, config))

\* lines.map(parse): throws when any line does
mapParse(parse(_), lines) ==
    IF \E i \in 1..Len(lines) : ~parse(lines[i]).ok THEN Thrown
    ELSE Ok([i \in 1..Len(lines) |-> parse(lines[i]).val])

parseMySquaresBlock(lines, config) ==
    mapParse(LAMBDA line : parseMySquareLine(line, config), lines)

\* -------------------------------------------------------------- full board

\* s.search(/\d/): the 0-based index of the first digit, -1 when none
searchDigit(s) == firstIndexWhere(LAMBDA i : isDigitChar(s[i]), Len(s)) - 1

stripTeamName(s) ==
    LET i == searchDigit(s)
    IN  IF i <= 0 THEN s ELSE trim(substring(s, i, Len(s)))

\* line.replace(/^(top|left)\s+/i, '')
stripAxisKeyword(line) ==
    IF matchesAtCI(line, 1, <<"t","o","p">>) /\ 4 <= Len(line) /\ isSpaceChar(line[4])
    THEN SubSeq(line, skipSpaces(line, 4), Len(line))
    ELSE IF matchesAtCI(line, 1, <<"l","e","f","t">>) /\ 5 <= Len(line) /\ isSpaceChar(line[5])
    THEN SubSeq(line, skipSpaces(line, 5), Len(line))
    ELSE line

numbersOf(groups, axisSize) ==
    IF ~groups.ok THEN Thrown
    ELSE IF Len(groups.val) # axisSize THEN Thrown
    ELSE groups

parseNumbersLine(line, axisSize) ==
    numbersOf(parseDigitGroups(splitSpaces(stripTeamName(trim(stripAxisKeyword(line))))),
              axisSize)

\* the tail \s*left\s+(.*) of the quarter-line pattern matches after the comma at c
quarterSplitAt(content, c) ==
    /\ content[c] = ","
    /\ matchesAtCI(content, skipSpaces(content, c + 1), <<"l","e","f","t">>)
    /\ skipSpaces(content, c + 1) + 4 <= Len(content)
    /\ isSpaceChar(content[skipSpaces(content, c + 1) + 4])

quarterOf(config, topNumbers, leftNumbers) ==
    IF ~topNumbers.ok \/ ~leftNumbers.ok THEN Thrown
    ELSE IF Len(topNumbers.val) # config.cols THEN Thrown
    ELSE IF Len(leftNumbers.val) # config.rows THEN Thrown
    ELSE Ok([topNumbers |-> topNumbers.val, leftNumbers |-> leftNumbers.val])

\* splitMatch: group 1 runs from start up to the comma at c (0: no match),
\* group 2 from the text after "left" to the end
quarterSplit(content, config, start, c) ==
    IF c = 0 THEN Thrown
    ELSE quarterOf(config,
             parseDigitGroups(splitSpaces(stripTeamName(trim(SubSeq(content, start, c - 1))))),
             parseDigitGroups(splitSpaces(stripTeamName(trim(
                 SubSeq(content, skipSpaces(content, skipSpaces(content, c + 1) + 4),
                        Len(content)))))))

\* content.match(/^top\s+(.*?)\s*,\s*left\s+(.*)/i)
quarterContent(content, config) ==
    IF ~(matchesAtCI(content, 1, <<"t","o","p">>) /\ 4 <= Len(content) /\ isSpaceChar(content[4]))
    THEN Thrown
    ELSE quarterSplit(content, config, skipSpaces(content, 4),
             firstIndexFrom(LAMBDA i : quarterSplitAt(content, i),
                            skipSpaces(content, 4), Len(content)))

\* line.replace(/^q[1-4]\s+/i, '')
stripQuarter(line) ==
    IF /\ matchesAtCI(line, 1, <<"q">>)
       /\ 3 <= Len(line)
       /\ line[2] \in {"1", "2", "3", "4"}
       /\ isSpaceChar(line[3])
    THEN SubSeq(line, skipSpaces(line, 3), Len(line))
    ELSE line

parseQuarterLine(line, config) == quarterContent(trim(stripQuarter(line)), config)

\* line.split(',').map(n => n.trim()).filter(n => n.length > 0)
splitNames(line) == filterNonEmpty(mapSeq(trim, splitChar(line, ",")))

\* variant: the names of the row as written
parseGridRow_asWritten(line, expectedCols) ==
    IF indexOfChar(line, ",", 1) > 0 THEN Ok(splitNames(line))
    ELSE Ok(filterNonEmpty(splitSpaces(line)))

parseGridRow(line, expectedCols) ==
    LET byComma == splitNames(line)
        bySpace == filterNonEmpty(splitSpaces(line))
    IN  IF indexOfChar(line, ",", 1) > 0 /\ Len(byComma) = expectedCols THEN Ok(byComma)
        ELSE IF Len(bySpace) = expectedCols THEN Ok(bySpace)
        ELSE Thrown

\* /^mine\b/i
isMineLine(line) == matchesAtCI(line, 1, <<"m","i","n","e">>) /\ wordBoundary(line, 5)

\* line.replace(/^mine\s+/i, '')
stripMine(line) ==
    IF matchesAtCI(line, 1, <<"m","i","n","e">>) /\ 5 <= Len(line) /\ isSpaceChar(line[5])
    THEN SubSeq(line, skipSpaces(line, 5), Len(line))
    ELSE line

quarterNumbersOf(topNums, leftNums) ==
    IF ~topNums.ok \/ ~leftNums.ok THEN Thrown
    ELSE Ok(<< [topNumbers |-> topNums.val, leftNumbers |-> leftNums.val] >>)

\* variant: each Q line goes to the quarter its label names
quartersOf_byLabel(lines, config) ==
    IF config.reroll
    THEN mapParse(LAMBDA line : parseQuarterLine(line, config),
                  [q \in 1..4 |->
                      IF \E i \in 1..4 : lines[i][2] = DigitChars[q + 1]
                      THEN lines[CHOOSE i \in 1..4 :
                                    /\ lines[i][2] = DigitChars[q + 1]
                                    /\ \A j \in 1..(i - 1) : lines[j][2] # DigitChars[q + 1]]
                      ELSE lines[q]])
    ELSE quarterNumbersOf(parseNumbersLine(lines[1], config.cols),
                          parseNumbersLine(lines[2], config.rows))

\* the number lines: four Q lines on a reroll board, else Top and Left
quartersOf(lines, config) ==
    IF config.reroll
    THEN mapParse(LAMBDA line : parseQuarterLine(line, config), SubSeq(lines, 1, 4))
    ELSE quarterNumbersOf(parseNumbersLine(lines[1], config.cols),
                          parseNumbersLine(lines[2], config.rows))

\* Optional Mine line at idx
mineNamesAt(lines, idx) ==
    IF idx <= Len(lines) /\ isMineLine(lines[idx])
    THEN splitNames(stripMine(lines[idx]))
    ELSE << >>

fullBoardOf(quarters, grid, mySquareNames) ==
    IF ~quarters.ok \/ ~grid.ok THEN Thrown
    ELSE Ok([quarters |-> quarters.val, grid |-> grid.val, mySquareNames |-> mySquareNames])

\* numLines number lines, then config.rows grid rows: a missing line throws,
\* as does a line that does not parse
fullBoardFrom(lines, config, numLines) ==
    IF Len(lines) < numLines + config.rows THEN Thrown
    ELSE fullBoardOf(quartersOf(lines, config),
                     mapParse(LAMBDA line : parseGridRow(line, config.cols),
                              SubSeq(lines, numLines + 1, numLines + config.rows)),
                     mineNamesAt(lines, numLines + config.rows + 1))

\* variant: the number lines are read as the body writes them
parseFullBoardBlock_byBody(lines, config) ==
    fullBoardFrom(lines, [config EXCEPT !.reroll = matchesAtCI(lines[1], 1, <<"q">>)],
                  IF matchesAtCI(lines[1], 1, <<"q">>) THEN 4 ELSE 2)

parseFullBoardBlock(lines, config) ==
    fullBoardFrom(lines, config, IF config.reroll THEN 4 ELSE 2)

\* ------------------------------------------------------------- board blocks

\* .filter(l => l.length > 0 && !l.startsWith('#'))
RECURSIVE filterDataLines(_)
filterDataLines(lines) ==
    IF Len(lines) = 0 THEN << >>
    ELSE IF Len(Head(lines)) > 0 /\ Head(lines)[1] # "#"
    THEN << Head(lines) >> \o filterDataLines(Tail(lines))
    ELSE filterDataLines(Tail(lines))

fullBoardBoard(config, fullBoard) ==
    IF ~fullBoard.ok THEN Thrown
    ELSE Ok([config |-> config, fullBoard |-> << fullBoard.val >>, mySquares |-> << >>])

mySquaresBoard(config, mySquares) ==
    IF ~mySquares.ok THEN Thrown
    ELSE Ok([config |-> config, fullBoard |-> << >>, mySquares |-> << mySquares.val >>])

\* the board of the lines after header, teams and payouts
boardOf(config, remaining) ==
    IF Len(remaining) = 0 THEN Thrown
    ELSE IF isFullBoardBlock(remaining)
    THEN fullBoardBoard(config, parseFullBoardBlock(remaining, config))
    ELSE mySquaresBoard(config, parseMySquaresBlock(remaining, config))

\* Optional: Payouts
boardWithPayouts(lines, config) ==
    IF 3 <= Len(lines) /\ isPayoutsLine(lines[3])
    THEN boardOf([config EXCEPT !.payouts = << parsePayoutsLine(lines[3]) >>],
                 SubSeq(lines, 4, Len(lines)))
    ELSE boardOf(config, SubSeq(lines, 3, Len(lines)))

boardWithTeams(lines, header, teams) ==
    IF ~teams.ok THEN Thrown
    ELSE boardWithPayouts(lines, [header EXCEPT !.topTeam = teams.val.topTeam,
                                                !.leftTeam = teams.val.leftTeam])

boardFromLines(lines) ==
    IF Len(lines) < 2 THEN Thrown
    ELSE boardWithTeams(lines, parseHeader(lines[1]), parseTeamsLine(lines[2]))

parseSingleBoard(block) ==
    boardFromLines(filterDataLines(mapSeq(trim, splitChar(block, "\n"))))

\* /\n\s*---\s*\n/ matches at the line break at m: the index of the last
\* character of the match, 0 when it does not match there
separatorEndAt(input, m) ==
    LET k == skipSpaces(input, m + 1)
        e == skipSpaces(input, k + 3)
    IN  IF /\ input[m] = "\n"
           /\ matchesAtCI(input, k, <<"-", "-", "-">>)
           /\ \E j \in (k + 3)..(e - 1) : input[j] = "\n"
        THEN CHOOSE j \in (k + 3)..(e - 1) :
                 input[j] = "\n" /\ \A i \in (j + 1)..(e - 1) : input[i] # "\n"
        ELSE 0

\* first index >= m where the separator matches, 0 when none
nextSeparator(input, m) ==
    firstIndexFrom(LAMBDA i : separatorEndAt(input, i) > 0, m, Len(input))

\* input.split(/\n\s*---\s*\n/), from index i on, the next separator being at m
RECURSIVE splitBlocksAt(_, _, _)
splitBlocksAt(input, i, m) ==
    IF m = 0 THEN << SubSeq(input, i, Len(input)) >>
    ELSE << SubSeq(input, i, m - 1) >>
         \o splitBlocksAt(input, separatorEndAt(input, m) + 1,
                          nextSeparator(input, separatorEndAt(input, m) + 1))

splitBlocks(input) == splitBlocksAt(input, 1, nextSeparator(input, 1))

\* variant: the blocks that do not parse are left out
parseBoards_skipBad(input) ==
    LET blocks == filterNonEmpty(mapSeq(trim, splitBlocks(input)))
        good == SelectSeq(blocks, LAMBDA b : parseSingleBoard(b).ok)
    IN  Ok([i \in 1..Len(good) |-> parseSingleBoard(good[i]).val])

parseBoards(input) ==
    mapParse(parseSingleBoard, filterNonEmpty(mapSeq(trim, splitBlocks(input))))

\* ------------------------------------ serialize, then parse back (SpecRT)

\* the configurations the boards are written out with: the fields of the
\* round-trip tests, a name of two words without buy-in and payouts, and the
\* team names of tests/parser.test.ts
ConfigVariants ==
    { [name |-> PoolName, buyIn |-> << 10 >>, topTeam |-> TopTeamName,
       leftTeam |-> LeftTeamName, payouts |-> << <<100, 200, 100, 400>> >>],
      [name |-> <<"O","f","f","i","c","e"," ","P","o","o","l">>, buyIn |-> << >>, topTeam |-> <<"K","a","n","s","a","s"," ","C","i","t","y">>,
       leftTeam |-> <<"S","e","a","h","a","w","k","s">>, payouts |-> << >>],
      [name |-> PoolName, buyIn |-> << 25 >>, topTeam |-> <<"K","a","n","s","a","s"," ","C","i","t","y"," ","C","h","i","e","f","s">>,
       leftTeam |-> <<"S","a","n"," ","F","r","a","n","c","i","s","c","o"," ","4","9","e","r","s">>, payouts |-> << >>] }

WithConfig(b, v) ==
    [b EXCEPT !.config = [name |-> v.name, buyIn |-> v.buyIn,
                          cols |-> b.config.cols, rows |-> b.config.rows,
                          reroll |-> b.config.reroll,
                          topTeam |-> v.topTeam, leftTeam |-> v.leftTeam,
                          payouts |-> v.payouts]]

\* 'round-trips a reroll my-squares board'
TestRerollBoard ==
    [config |-> [name |-> <<"R","e","r","o","l","l">>, buyIn |-> << 25 >>, cols |-> 5, rows |-> 5,
                 reroll |-> TRUE, topTeam |-> <<"A">>, leftTeam |-> <<"B">>,
                 payouts |-> << >>],
     fullBoard |-> << >>,
     mySquares |-> << << [quarters |-> <<
         [topDigits |-> <<0, 3>>, leftDigits |-> <<1, 2>>],
         [topDigits |-> <<5, 6>>, leftDigits |-> <<4, 8>>],
         [topDigits |-> <<4, 0>>, leftDigits |-> <<4, 3>>],
         [topDigits |-> <<7, 8>>, leftDigits |-> <<4, 7>>] >>] >> >>]

\* 'round-trips multiple boards'
TestBoardList ==
    << [config |-> [name |-> <<"B","o","a","r","d","1">>, buyIn |-> << 10 >>, cols |-> 10, rows |-> 10,
                    reroll |-> FALSE, topTeam |-> <<"X">>, leftTeam |-> <<"Y">>,
                    payouts |-> << >>],
        fullBoard |-> << >>,
        mySquares |-> << << [quarters |-> << [topDigits |-> <<5>>, leftDigits |-> <<5>>] >>] >> >>],
       [config |-> [name |-> <<"B","o","a","r","d","2">>, buyIn |-> << 5 >>, cols |-> 5, rows |-> 5,
                    reroll |-> FALSE, topTeam |-> <<"A">>, leftTeam |-> <<"B">>,
                    payouts |-> << >>],
        fullBoard |-> << >>,
        mySquares |-> << << [quarters |-> << [topDigits |-> <<0, 1>>, leftDigits |-> <<2, 3>>] >>] >> >>] >>

\* the board lists written out: every board of the engine's families under
\* every configuration, the boards of the round-trip tests, and the lists of
\* two boards that put a full board next to a my-squares board
BoardLists ==
    { << WithConfig(b, v) >> : b \in MySquareBoards \cup FullBoards, v \in ConfigVariants }
    \cup { << TestRerollBoard >>, TestBoardList }
    \cup { << f, m >> : f \in FullBoardsOf(5, 10, TRUE), m \in { b \in MySquareBoards : b.config.cols = 10 /\ b.config.rows = 10 } }

InitRT ==
    /\ rt \in { [pc |-> "boards", boards |-> bs, text |-> << >>, parsed |-> << >>]
                : bs \in BoardLists }
    /\ board = rt.boards[1]
    /\ call = CallIdle
    /\ state = InitState
    /\ statuses = checkAllMySquares(board, InitState)
    /\ fbStatus = IF board.fullBoard = << >> THEN << >>
                  ELSE << fullBoardResult(board, InitState) >>
    /\ cells = getFullBoardCellStatuses(board, InitState)

\* const text = serializeBoards(boards)
Serialize ==
    /\ rt.pc = "boards"
    /\ rt' = [rt EXCEPT !.pc = "text", !.text = serializeBoards(rt.boards)]
    /\ UNCHANGED << board, state, statuses, fbStatus, cells, call >>

\* const parsed = parseBoards(text)
Parse ==
    /\ rt.pc = "text"
    /\ rt' = [rt EXCEPT !.pc = "parsed", !.parsed = << parseBoards(rt.text) >>]
    /\ UNCHANGED << board, state, statuses, fbStatus, cells, call >>

NextRT == Serialize \/ Parse

SpecRT == InitRT /\ [][NextRT]_vars

\* --------------------------------------------- properties of the round trip

\* C1: for every valid board list written out by serializeBoards, parseBoards
\* of the text returns a list of the same length and order whose boards equal
\* the ones written out: same name, buyIn, cols, rows, reroll, topTeam,
\* leftTeam, payouts, and the same digit, grid and mySquareNames data
C1_RoundTrip ==
    rt.pc = "parsed" =>
        /\ rt.parsed[1].ok
        /\ Len(rt.parsed[1].val) = Len(rt.boards)
        /\ \A i \in 1..Len(rt.boards) : rt.parsed[1].val[i] = rt.boards[i]


\* ================================== entry points called on text (SpecParse)

\* a call that has not run yet
CallOf(fn, arg, src) == [fn |-> fn, arg |-> arg, src |-> src, done |-> FALSE, result |-> << >>]

\* -------------------------------------------------------- codec arguments

MaxTokenLen == 3

\* the characters tokens are made of: digits, a letter, a sign, a blank
TokenChars == {"0", "3", "5", "7", "a", "-", " "}

\* all tokens of exactly n characters
RECURSIVE TokensOfLen(_)
TokensOfLen(n) ==
    IF n = 0 THEN { << >> }
    ELSE { t \o << c >> : t \in TokensOfLen(n - 1), c \in TokenChars }

Tokens == UNION { TokensOfLen(n) : n \in 0..MaxTokenLen }

\* number[] of one or two digits
DigitSeqs == { << d >> : d \in 0..9 } \cup { << d, e >> : d \in 0..9, e \in 0..9 }

CodecCalls ==
    { CallOf("parseDigitGroup", t, << >>) : t \in Tokens }
    \cup { CallOf("formatDigits", ds, << >>) : ds \in DigitSeqs }

\* parseDigitGroup(token)
CallParseDigitGroup ==
    /\ call.fn = "parseDigitGroup" /\ ~call.done
    /\ call' = [call EXCEPT !.done = TRUE, !.result = parseDigitGroup(call.arg)]
    /\ UNCHANGED << board, state, statuses, fbStatus, cells, rt >>

\* formatDigits(digits)
CallFormatDigits ==
    /\ call.fn = "formatDigits" /\ ~call.done
    /\ call' = [call EXCEPT !.done = TRUE, !.result = formatDigits(call.arg)]
    /\ UNCHANGED << board, state, statuses, fbStatus, cells, rt >>

\* ------------------------------------------------------ my-squares blocks

MaxGroups == 5

\* the q-th digit group written for a team on an axis of the given size
GroupAt(q, size, k) ==
    IF size = 10 THEN << (q + k) % 10 >> ELSE << (q + k) % 10, (q + k + 4) % 10 >>

sizeToken(cols, rows) == numberToString(cols) \o <<"x">> \o numberToString(rows)

\* one clause of a square line: the team name (when written) and its groups
clauseOf(team, named, groups) ==
    join((IF named THEN << team >> ELSE << >>) \o mapSeq(formatDigits, groups), <<" ">>)

squareLine(d, top, left) ==
    clauseOf(TopTeamName, d.named, top) \o <<",", " ">> \o clauseOf(LeftTeamName, d.named, left)

\* a my-squares block: header, teams, a square line with the right number of
\* groups, then the square line under test
squaresText(d) ==
    join(<< PoolName \o <<" ">> \o sizeToken(d.cols, d.rows)
               \o (IF d.reroll THEN <<" ","r","e","r","o","l","l">> ELSE << >>),
            TopTeamName \o <<" ","v","s"," ">> \o LeftTeamName,
            squareLine(d, d.firstTop, d.firstLeft),
            squareLine(d, d.top, d.left) >>, <<"\n">>)

CountInputs ==
    { [kind |-> "squares", cols |-> cols, rows |-> rows, reroll |-> reroll, named |-> named,
       firstTop |-> [q \in 1..QuartersCount(reroll) |-> GroupAt(q, cols, 5)],
       firstLeft |-> [q \in 1..QuartersCount(reroll) |-> GroupAt(q, rows, 7)],
       top |-> [q \in 1..k |-> GroupAt(q, cols, 0)],
       left |-> [q \in 1..m |-> GroupAt(q, rows, 2)]]
      : cols \in AxisSizes, rows \in AxisSizes, reroll \in BOOLEAN, named \in BOOLEAN,
        k \in 0..MaxGroups, m \in 0..MaxGroups }

\* square lines with the right number of groups whose groups are written
\* with the width of the other axis size, or with one digit twice
WidthInputs ==
    { [kind |-> "squares", cols |-> cols, rows |-> rows, reroll |-> reroll, named |-> TRUE,
       firstTop |-> [q \in 1..QuartersCount(reroll) |-> GroupAt(q, cols, 5)],
       firstLeft |-> [q \in 1..QuartersCount(reroll) |-> GroupAt(q, rows, 7)],
       top |-> [q \in 1..QuartersCount(reroll) |-> GroupAt(q, topWidth, 0)],
       left |-> [q \in 1..QuartersCount(reroll) |->
                    IF twice THEN << q, q >> ELSE GroupAt(q, leftWidth, 2)]]
      : cols \in AxisSizes, rows \in AxisSizes, reroll \in BOOLEAN,
        topWidth \in AxisSizes, leftWidth \in AxisSizes, twice \in BOOLEAN }

SquaresInputs == CountInputs \cup WidthInputs

SquaresCalls == { CallOf("parseSingleBoard", squaresText(d), d) : d \in SquaresInputs }

\* parseSingleBoard(input)
CallParseSingleBoard ==
    /\ call.fn = "parseSingleBoard" /\ ~call.done
    /\ call' = [call EXCEPT !.done = TRUE, !.result = parseSingleBoard(call.arg)]
    /\ UNCHANGED << board, state, statuses, fbStatus, cells, rt >>

\* ------------------------------------------------------------ teams lines

TeamNames == { <<"A">>, <<"B">>, <<"P","a","t","r","i","o","t","s">>, <<"S","e","a","h","a","w","k","s">>,
               <<"K","a","n","s","a","s"," ","C","i","t","y"," ","C","h","i","e","f","s">>, <<"S","a","n"," ","F","r","a","n","c","i","s","c","o"," ","4","9","e","r","s">> }

\* the separators and annotation spellings the pattern allows
VsWords == { <<" ","v","s"," ">>, <<" ","v","s","."," ">>, <<" "," ","V","S","\t">> }

annotationText(a, upper) ==
    IF a = "top" THEN (IF upper THEN <<" ","(","T","O","P",")">> ELSE <<" ","(","t","o","p",")">>)
    ELSE IF a = "left" THEN (IF upper THEN <<"(","L","e","f","t",")">> ELSE <<" ","(","l","e","f","t",")">>)
    ELSE << >>

teamsText(d) ==
    d.team1 \o annotationText(d.mark1, d.upper) \o d.vs
    \o d.team2 \o annotationText(d.mark2, d.upper)

TeamsInputs ==
    { [kind |-> "teams", team1 |-> t1, team2 |-> t2, mark1 |-> m1, mark2 |-> m2,
       vs |-> vs, upper |-> upper]
      : t1 \in TeamNames, t2 \in TeamNames, m1 \in {"none", "top", "left"},
        m2 \in {"none", "top", "left"}, vs \in VsWords, upper \in BOOLEAN }

TeamsCalls == { CallOf("parseTeamsLine", teamsText(d), d) : d \in TeamsInputs }

\* parseTeamsLine(line)
CallParseTeamsLine ==
    /\ call.fn = "parseTeamsLine" /\ ~call.done
    /\ call' = [call EXCEPT !.done = TRUE, !.result = parseTeamsLine(call.arg)]
    /\ UNCHANGED << board, state, statuses, fbStatus, cells, rt >>

\* -------------------------------------------------------- full-board blocks

MaxOff == 1

\* how far the written counts are from the declared size: the groups of the
\* top and left numbers (of the last number line), the names of the first
\* grid row, the number of grid rows; at most one of them is off
Offsets ==
    { o \in [top : -MaxOff..MaxOff, left : -MaxOff..MaxOff,
             names : -MaxOff..MaxOff, rows : -MaxOff..MaxOff] :
        Cardinality({ f \in {"top", "left", "names", "rows"} : o[f] # 0 }) <= 1 }

OwnerLetters == <<"a","b","c","d","e","f","g","h","i","j","k","l","m","n","o","p","q","r","s","t","u","v","w","x","y","z">>

ownerName(r, c) == << OwnerLetters[r], OwnerLetters[c] >>

numbersText(q, size, n) ==
    join([k \in 1..n |-> formatDigits(GroupAt(q, size, k))], <<" ">>)

\* the number lines: "Q<q> Top ..., Left ..." four times, or "Top ..." and
\* "Left ..."; the last of them carries the counts that are off
numberLines(d) ==
    IF d.qlines
    THEN [q \in 1..4 |->
            <<"Q">> \o numberToString(q) \o <<" ","T","o","p"," ">>
            \o numbersText(q, d.cols, d.cols + (IF q = 4 THEN d.off.top ELSE 0))
            \o <<","," ","L","e","f","t"," ">>
            \o numbersText(q + 3, d.rows, d.rows + (IF q = 4 THEN d.off.left ELSE 0))]
    ELSE << <<"T","o","p"," ">> \o TopTeamName \o <<" ">> \o numbersText(1, d.cols, d.cols + d.off.top),
            <<"L","e","f","t"," ">> \o LeftTeamName \o <<" ">> \o numbersText(4, d.rows, d.rows + d.off.left) >>

gridLines(d) ==
    [r \in 1..(d.rows + d.off.rows) |->
        join([c \in 1..(d.cols + (IF r = 1 THEN d.off.names ELSE 0)) |-> ownerName(r, c)],
             IF d.commas THEN <<",", " ">> ELSE <<" ">>)]

mineLines(d) ==
    IF d.mine THEN << <<"M","i","n","e"," ">> \o ownerName(1, 1) \o <<",", " ">> \o ownerName(2, 2) >>
    ELSE << >>

fullText(d) ==
    join(<< PoolName \o <<" ">> \o sizeToken(d.cols, d.rows)
               \o (IF d.reroll THEN <<" ","r","e","r","o","l","l">> ELSE << >>)
               \o (IF d.full THEN <<" ","f","u","l","l">> ELSE << >>),
            TopTeamName \o <<" ","v","s"," ">> \o LeftTeamName >>
         \o numberLines(d) \o gridLines(d) \o mineLines(d), <<"\n">>)

FullInputs ==
    { [kind |-> "full", cols |-> cols, rows |-> rows, reroll |-> reroll, qlines |-> qlines,
       off |-> off, commas |-> commas, mine |-> mine, full |-> full]
      : cols \in AxisSizes, rows \in AxisSizes, reroll \in BOOLEAN, qlines \in BOOLEAN,
        off \in Offsets, commas \in BOOLEAN, mine \in BOOLEAN, full \in BOOLEAN }

FullCalls == { CallOf("parseSingleBoard", fullText(d), d) : d \in FullInputs }

\* the block with the full keyword at the end of its header line
withFullKeyword(text) ==
    SubSeq(text, 1, indexOfChar(text, "\n", 1) - 1) \o <<" ","f","u","l","l">>
    \o SubSeq(text, indexOfChar(text, "\n", 1), Len(text))

\* my-squares blocks under a header that says full
KeywordCalls ==
    { CallOf("parseSingleBoard", withFullKeyword(squaresText(d)), [kind |-> "keyword", of |-> d])
      : d \in WidthInputs }

\* reroll full boards whose four Q lines carry any labels 1..4
labelLines(d) ==
    [q \in 1..4 |->
        <<"Q">> \o numberToString(d.labels[q]) \o <<" ","T","o","p"," ">>
        \o numbersText(q, d.cols, d.cols) \o <<","," ","L","e","f","t"," ">>
        \o numbersText(q + 3, d.rows, d.rows)]

labelText(d) ==
    join(<< PoolName \o <<" ">> \o sizeToken(d.cols, d.rows) \o <<" ","r","e","r","o","l","l">>,
            TopTeamName \o <<" ","v","s"," ">> \o LeftTeamName >>
         \o labelLines(d) \o gridLines(d) \o mineLines(d), <<"\n">>)

LabelInputs ==
    { [kind |-> "labels", cols |-> cols, rows |-> 5, labels |-> labels,
       off |-> [top |-> 0, left |-> 0, names |-> 0, rows |-> 0],
       commas |-> TRUE, mine |-> TRUE]
      : cols \in AxisSizes, labels \in [1..4 -> 1..4] }

LabelCalls == { CallOf("parseSingleBoard", labelText(d), d) : d \in LabelInputs }

\* ----------------------------------------------------------- payouts lines

MaxPayouts == 5

\* the tokens of a payouts line: count amounts, and a token that is no
\* integer (a word, an amount with a dollar sign) put first when junk says so
payoutTokens(d) ==
    (IF d.junk = "word" THEN << <<"t","b","d">> >>
     ELSE IF d.junk = "dollar" THEN << <<"$","5","0">> >> ELSE << >>)
    \o [k \in 1..d.count |-> numberToString(100 * k)]

payoutsText(d) ==
    join(<< PoolName \o <<" ">> \o sizeToken(10, 10),
            TopTeamName \o <<" ","v","s"," ">> \o LeftTeamName,
            join(<< d.word >> \o payoutTokens(d), <<" ">>),
            squareLine([named |-> TRUE], << <<3>> >>, << <<7>> >>) >>, <<"\n">>)

PayoutsInputs ==
    { [kind |-> "payouts", count |-> n, junk |-> junk, word |-> word]
      : n \in 0..MaxPayouts, junk \in {"none", "word", "dollar"},
        word \in { <<"P","a","y","o","u","t","s">>, <<"p","a","y","o","u","t">> } }

PayoutsCalls == { CallOf("parseSingleBoard", payoutsText(d), d) : d \in PayoutsInputs }

\* ------------------------------------------------------------ header lines

\* size tokens: <c>x<r> in three spellings, <n> squares in three spellings,
\* none, and tokens the patterns do not match
SizeTokens ==
    { [kind |-> "dim", cols |-> c, rows |-> r,
       text |-> numberToString(c) \o sep \o numberToString(r)]
      : c \in AxisSizes, r \in AxisSizes, sep \in { <<"x">>, <<"X">>, <<" ","x"," ">> } }
    \cup { [kind |-> "squares", total |-> n, text |-> numberToString(n) \o word]
           : n \in {25, 50, 100}, word \in { <<" ","s","q","u","a","r","e","s">>, <<" ","s","q","u","a","r","e">>, <<"s","q","u","a","r","e","s">> } }
    \cup { [kind |-> "none", text |-> t]
           : t \in { << >>, <<"7","x","7">>, <<"1","5","x","1","0">>, <<"5","x","5","0">>, <<"3","6"," ","s","q","u","a","r","e","s">> } }

HeaderNames == { << >>, <<"F","a","m","i","l","y">>, <<"O","f","f","i","c","e"," ","P","o","o","l">> }

headerText(d) ==
    join(filterNonEmpty(<< d.name,
                           IF d.buyIn THEN <<"$","1","0">> ELSE << >>,
                           d.size.text, d.reroll,
                           IF d.full THEN <<"f","u","l","l">> ELSE << >> >>), <<" ">>)

HeaderInputs ==
    { [kind |-> "header", name |-> name, buyIn |-> buyIn, size |-> size,
       reroll |-> reroll, full |-> full]
      : name \in HeaderNames, buyIn \in BOOLEAN, size \in SizeTokens,
        reroll \in { << >>, <<"r","e","r","o","l","l">>, <<"r","e","-","r","o","l","l">> }, full \in BOOLEAN }

HeaderCalls == { CallOf("parseHeader", headerText(d), d) : d \in HeaderInputs }

\* parseHeader(line)
CallParseHeader ==
    /\ call.fn = "parseHeader" /\ ~call.done
    /\ call' = [call EXCEPT !.done = TRUE, !.result = parseHeader(call.arg)]
    /\ UNCHANGED << board, state, statuses, fbStatus, cells, rt >>

\* ----------------------------------------------------------- board lists

MaxBlocks == 3

\* the two boards of the parseBoards test, a commented board, a square line
\* with a group too many, a header alone, and an empty block
GoodBlocks ==
    { <<"O","f","f","i","c","e"," ","P","o","o","l"," ","$","1","0"," ","1","0","x","1","0","\n","P","a","t","r","i","o","t","s"," ","v","s"," ","S","e","a","h","a","w","k","s","\n","P","a","t","r","i","o","t","s"," ","0",","," ","S","e","a","h","a","w","k","s"," ","7">>,
      <<"S","i","d","e"," ","B","e","t"," ","$","2","5"," ","5","x","5"," ","r","e","r","o","l","l","\n","P","a","t","r","i","o","t","s"," ","v","s"," ","S","e","a","h","a","w","k","s","\n","P","a","t","r","i","o","t","s"," ","0","3"," ","5","6"," ","4","0"," ","7","8",","," ","S","e","a","h","a","w","k","s"," ","1","2"," ","4","8"," ","4","3"," ","4","7">>,
      <<"#"," ","T","h","i","s"," ","i","s"," ","a"," ","c","o","m","m","e","n","t","\n","P","o","o","l"," ","$","1","0"," ","1","0","x","1","0","\n","#"," ","T","e","a","m","s"," ","b","e","l","o","w","\n","P","a","t","r","i","o","t","s"," ","v","s"," ","S","e","a","h","a","w","k","s","\n","P","a","t","r","i","o","t","s"," ","0",","," ","S","e","a","h","a","w","k","s"," ","7">> }

BadBlocks ==
    { <<"O","f","f","i","c","e"," ","P","o","o","l"," ","$","1","0"," ","1","0","x","1","0","\n","P","a","t","r","i","o","t","s"," ","v","s"," ","S","e","a","h","a","w","k","s","\n","P","a","t","r","i","o","t","s"," ","0"," ","3",","," ","S","e","a","h","a","w","k","s"," ","7">>,
      <<"S","i","d","e"," ","B","e","t"," ","$","2","5"," ","5","x","5"," ","r","e","r","o","l","l">> }

Blocks == GoodBlocks \cup BadBlocks \cup { << >> }

Separators == { <<"\n","-","-","-","\n">>, <<"\n"," "," ","-","-","-"," ","\n">> }

BlockLists == UNION { [1..n -> Blocks] : n \in 1..MaxBlocks }

boardsText(d) == join(d.blocks, d.sep)

BoardsInputs ==
    { [kind |-> "boards", blocks |-> blocks, sep |-> sep]
      : blocks \in BlockLists, sep \in Separators }

BoardsCalls == { CallOf("parseBoards", boardsText(d), d) : d \in BoardsInputs }

\* parseBoards(input)
CallParseBoards ==
    /\ call.fn = "parseBoards" /\ ~call.done
    /\ call' = [call EXCEPT !.done = TRUE, !.result = parseBoards(call.arg)]
    /\ UNCHANGED << board, state, statuses, fbStatus, cells, rt >>

\* ---------------------------------------------------------- specification

ParseCalls ==
    CodecCalls \cup SquaresCalls \cup TeamsCalls \cup FullCalls \cup KeywordCalls
    \cup HeaderCalls \cup BoardsCalls \cup LabelCalls \cup PayoutsCalls

InitParse ==
    /\ call \in ParseCalls
    /\ rt = RTIdle
    /\ board = TestBoardList[1]
    /\ state = InitState
    /\ statuses = checkAllMySquares(board, InitState)
    /\ fbStatus = << >>
    /\ cells = getFullBoardCellStatuses(board, InitState)

NextParse ==
    \/ CallParseDigitGroup
    \/ CallFormatDigits
    \/ CallParseSingleBoard
    \/ CallParseTeamsLine
    \/ CallParseHeader
    \/ CallParseBoards

SpecParse == InitParse /\ [][NextParse]_vars

\* ------------------------------------------------ properties of the parser

IsDigitToken(t) == Len(t) \in {1, 2} /\ \A i \in 1..Len(t) : isDigitChar(t[i])

\* C11: parseDigitGroup accepts exactly the tokens of one or two decimal
\* digits, returns their digits in the written left-to-right order (not
\* sorted), and fails for every other token
C11_DigitGroupAccepts ==
    (call.fn = "parseDigitGroup" /\ call.done) =>
        /\ call.result.ok <=> IsDigitToken(call.arg)
        /\ call.result.ok =>
               call.result.val = [i \in 1..Len(call.arg) |-> digitValue(call.arg[i])]

\* C11 witness: the token "73" was parsed to [7, 3]
C11_Witness ==
    /\ call.fn = "parseDigitGroup" /\ call.done
    /\ call.arg = <<"7", "3">>
    /\ call.result = Ok(<< 7, 3 >>)

\* C12: formatDigits is the inverse of parseDigitGroup: parsing the token of
\* one or two digits gives the digits back, and formatting the digits of a
\* valid token gives the token back, leading zeros included
C12_CodecInverse ==
    /\ (call.fn = "formatDigits" /\ call.done) =>
           parseDigitGroup(call.result) = Ok(call.arg)
    /\ (call.fn = "parseDigitGroup" /\ call.done /\ call.result.ok) =>
           formatDigits(call.result.val) = call.arg

\* C12 witness: the digits [0, 3] were formatted to "03"
C12_Witness ==
    /\ call.fn = "formatDigits" /\ call.done
    /\ call.arg = << 0, 3 >>
    /\ call.result = <<"0", "3">>

\* C13: a square line is accepted only with exactly 1 digit group per team
\* clause on a non-reroll board and exactly 4 on a reroll board, the groups
\* going to quarters 0..3 in written order; any other count on either side
\* fails the whole parse, although the line before it is well formed
C13_GroupCountRule ==
    (call.fn = "parseSingleBoard" /\ call.done /\ call.src.kind = "squares") =>
        LET d == call.src
            n == QuartersCount(d.reroll)
        IN  /\ call.result.ok <=> (Len(d.top) = n /\ Len(d.left) = n)
            /\ call.result.ok =>
                   /\ Len(call.result.val.mySquares[1]) = 2
                   /\ call.result.val.mySquares[1][2].quarters =
                          [q \in 1..n |-> [topDigits |-> d.top[q], leftDigits |-> d.left[q]]]

\* C13 witness: a reroll line with 4 groups per clause was accepted, and the
\* third quarter holds the third groups
C13_Witness ==
    /\ call.fn = "parseSingleBoard" /\ call.done /\ call.src.kind = "squares"
    /\ call.src.reroll /\ call.src.cols = 5 /\ call.src.rows = 10
    /\ call.result.ok
    /\ call.result.val.mySquares[1][2].quarters[3] =
           [topDigits |-> << 3, 7 >>, leftDigits |-> << 5 >>]

\* the line that names the same teams the other way round: team 2 with its
\* mark first, team 1 with its mark second
Reversed(d) ==
    [d EXCEPT !.team1 = d.team2, !.team2 = d.team1, !.mark1 = d.mark2, !.mark2 = d.mark1]

\* C14: parseTeamsLine maps Team1 to top and Team2 to left, swapped exactly
\* when Team1 is marked (left) or Team2 is marked (top); the names come back
\* without annotations; hence "A (top) vs B (left)" and "B (left) vs A (top)"
\* give the same teams
C14_AnnotationWins ==
    (call.fn = "parseTeamsLine" /\ call.done) =>
        LET d == call.src
            swapped == d.mark1 = "left" \/ d.mark2 = "top"
        IN  /\ call.result.ok
            /\ call.result.val = IF swapped
                                 THEN [topTeam |-> d.team2, leftTeam |-> d.team1]
                                 ELSE [topTeam |-> d.team1, leftTeam |-> d.team2]
            /\ (d.mark1 = "top" /\ d.mark2 = "left") =>
                   parseTeamsLine(teamsText(Reversed(d))) = call.result

\* C14 witness: "Patriots (left) vs Seahawks (top)" gave top Seahawks, left Patriots
C14_Witness ==
    /\ call.fn = "parseTeamsLine" /\ call.done
    /\ call.arg = <<"P","a","t","r","i","o","t","s"," ","(","l","e","f","t",")"," ","v","s"," ","S","e","a","h","a","w","k","s"," ","(","t","o","p",")">>
    /\ call.result = Ok([topTeam |-> <<"S","e","a","h","a","w","k","s">>, leftTeam |-> <<"P","a","t","r","i","o","t","s">>])

\* a digit group as the data model wants it on an axis of the given size
GroupFits(g, size) ==
    IF size = 5
    THEN Len(g) = 2 /\ g[1] # g[2] /\ \A i \in 1..2 : g[i] \in 0..9
    ELSE Len(g) = 1 /\ g[1] \in 0..9

\* the digit groups of a board fit its axis sizes
BoardGroupsFit(b) ==
    /\ \A i \in 1..Len(b.mySquares) : \A s \in 1..Len(b.mySquares[i]) :
           \A q \in 1..Len(b.mySquares[i][s].quarters) :
               /\ GroupFits(b.mySquares[i][s].quarters[q].topDigits, b.config.cols)
               /\ GroupFits(b.mySquares[i][s].quarters[q].leftDigits, b.config.rows)
    /\ \A i \in 1..Len(b.fullBoard) : \A q \in 1..Len(b.fullBoard[i].quarters) :
           /\ \A c \in 1..Len(b.fullBoard[i].quarters[q].topNumbers) :
                  GroupFits(b.fullBoard[i].quarters[q].topNumbers[c], b.config.cols)
           /\ \A r \in 1..Len(b.fullBoard[i].quarters[q].leftNumbers) :
                  GroupFits(b.fullBoard[i].quarters[q].leftNumbers[r], b.config.rows)

\* C15: in every Board the parser produces, every digit group on a 5-slot
\* axis has exactly 2 distinct digits and every digit group on a 10-slot axis
\* exactly 1, for my-squares digits and full-board numbers
C15_GroupSizeMatchesAxis ==
    (call.fn = "parseSingleBoard" /\ call.done /\ call.result.ok) =>
        BoardGroupsFit(call.result.val)

\* the quarters of every square and of the full board are as many as the
\* reroll flag says
QuartersMatchReroll(b) ==
    /\ \A i \in 1..Len(b.mySquares) : \A s \in 1..Len(b.mySquares[i]) :
           Len(b.mySquares[i][s].quarters) = QuartersCount(b.config.reroll)
    /\ \A i \in 1..Len(b.fullBoard) :
           Len(b.fullBoard[i].quarters) = QuartersCount(b.config.reroll)

\* C16: in every Board the parser produces, each mySquares[i].quarters and
\* fullBoard.quarters has length 1 when config.reroll is false and length 4
\* when it is true
C16_QuartersMatchReroll ==
    (call.fn = "parseSingleBoard" /\ call.done /\ call.result.ok) =>
        QuartersMatchReroll(call.result.val)

\* C16 witness: a reroll full board parsed with its four quarters
C16_Witness ==
    /\ call.fn = "parseSingleBoard" /\ call.done /\ call.result.ok
    /\ call.src.kind = "full" /\ call.src.reroll
    /\ call.result.val.config.reroll
    /\ Len(call.result.val.fullBoard) = 1
    /\ Len(call.result.val.fullBoard[1].quarters) = 4

\* the numbers and the grid of a full board have the declared size
FullBoardShape(b) ==
    \A i \in 1..Len(b.fullBoard) :
        /\ \A q \in 1..Len(b.fullBoard[i].quarters) :
               /\ Len(b.fullBoard[i].quarters[q].topNumbers) = b.config.cols
               /\ Len(b.fullBoard[i].quarters[q].leftNumbers) = b.config.rows
        /\ Len(b.fullBoard[i].grid) = b.config.rows
        /\ \A r \in 1..Len(b.fullBoard[i].grid) :
               Len(b.fullBoard[i].grid[r]) = b.config.cols

\* C17: in every Board the parser produces, topNumbers has exactly cols
\* groups and leftNumbers exactly rows groups in every quarter, the grid has
\* exactly rows rows of exactly cols names; a numbers line or a grid line
\* with another count makes the parse fail
C17_FullBoardShape ==
    (call.fn = "parseSingleBoard" /\ call.done) =>
        /\ call.result.ok => FullBoardShape(call.result.val)
        /\ (/\ call.src.kind = "full"
            /\ (call.src.off.top # 0 \/ call.src.off.left # 0 \/ call.src.off.names # 0))
               => ~call.result.ok

\* C17 witness: a 10x5 full board parsed into 10 top groups, 5 left groups
\* and 5 rows of 10 names
C17_Witness ==
    /\ call.fn = "parseSingleBoard" /\ call.done /\ call.result.ok
    /\ call.src.kind = "full" /\ call.src.cols = 10 /\ call.src.rows = 5
    /\ Len(call.result.val.fullBoard) = 1
    /\ Len(call.result.val.fullBoard[1].quarters[1].topNumbers) = 10
    /\ Len(call.result.val.fullBoard[1].quarters[1].leftNumbers) = 5
    /\ Len(call.result.val.fullBoard[1].grid) = 5
    /\ Len(call.result.val.fullBoard[1].grid[5]) = 10

\* the data lines of a block, as parseSingleBoard reads them
dataLinesOf(block) == filterDataLines(mapSeq(trim, splitChar(block, "\n")))

\* the input of the call with the full keyword added to, or taken from, its header
OtherSpelling ==
    IF call.src.kind = "full" THEN fullText([call.src EXCEPT !.full = ~call.src.full])
    ELSE IF call.src.kind = "keyword" THEN squaresText(call.src.of)
    ELSE withFullKeyword(call.arg)

\* C18: every Board parseSingleBoard returns has exactly one of fullBoard and
\* mySquares, it has fullBoard exactly when the first body line is a Top or
\* Q line, and the input with the full keyword added to or removed from the
\* header parses to the same result
C18_ModeFromBody ==
    (call.fn = "parseSingleBoard" /\ call.done) =>
        /\ call.result.ok =>
              /\ Len(call.result.val.fullBoard) + Len(call.result.val.mySquares) = 1
              /\ Len(call.result.val.fullBoard) = 1
                    <=> isFullBoardBlock(SubSeq(dataLinesOf(call.arg), 3,
                                                Len(dataLinesOf(call.arg))))
        /\ call.result = parseSingleBoard(OtherSpelling)

\* C18 witness: a header that says full over square lines gives my squares
C18_Witness ==
    /\ call.fn = "parseSingleBoard" /\ call.done /\ call.result.ok
    /\ call.src.kind = "keyword"
    /\ Len(call.result.val.mySquares) = 1
    /\ Len(call.result.val.fullBoard) = 0
    /\ parseSingleBoard(OtherSpelling).ok

\* C19: the size parseHeader returns is in {5, 10} on both axes: <c>x<r>
\* gives cols = c and rows = r, 25 squares gives 5x5, 100 squares 10x10,
\* 50 squares cols = 5 and rows = 10, and a header without a size token
\* still has a size in {5, 10} x {5, 10}
C19_HeaderSize ==
    (call.fn = "parseHeader" /\ call.done) =>
        /\ call.result.cols \in AxisSizes /\ call.result.rows \in AxisSizes
        /\ call.src.size.kind = "dim" =>
              call.result.cols = call.src.size.cols /\ call.result.rows = call.src.size.rows
        /\ (call.src.size.kind = "squares" /\ call.src.size.total = 25) =>
              call.result.cols = 5 /\ call.result.rows = 5
        /\ (call.src.size.kind = "squares" /\ call.src.size.total = 100) =>
              call.result.cols = 10 /\ call.result.rows = 10
        /\ (call.src.size.kind = "squares" /\ call.src.size.total = 50) =>
              call.result.cols = 5 /\ call.result.rows = 10

\* C19 witness: a header with 50 squares parsed as 5 columns by 10 rows
C19_Witness ==
    /\ call.fn = "parseHeader" /\ call.done
    /\ call.src.size.kind = "squares" /\ call.src.size.total = 50
    /\ call.result.cols = 5 /\ call.result.rows = 10

\* the non-empty blocks the input was written from
WrittenBlocks == filterNonEmpty(mapSeq(trim, call.src.blocks))

\* C20: parseBoards returns one Board per non-empty block, in input order,
\* each the Board parseSingleBoard gives for the block, or fails as a whole;
\* when any block is malformed it returns no boards
C20_AllOrNothing ==
    (call.fn = "parseBoards" /\ call.done) =>
        /\ call.result.ok =>
              /\ Len(call.result.val) = Len(WrittenBlocks)
              /\ \A i \in 1..Len(WrittenBlocks) :
                     /\ parseSingleBoard(WrittenBlocks[i]).ok
                     /\ call.result.val[i] = parseSingleBoard(WrittenBlocks[i]).val
        /\ (\E i \in 1..Len(WrittenBlocks) : ~parseSingleBoard(WrittenBlocks[i]).ok) =>
              ~call.result.ok /\ call.result.val = << >>

\* C20 witness: two well-formed blocks before a malformed one, and no boards
C20_Witness ==
    /\ call.fn = "parseBoards" /\ call.done
    /\ Len(call.src.blocks) = 3
    /\ call.src.blocks[1] \in GoodBlocks /\ call.src.blocks[2] \in GoodBlocks
    /\ call.src.blocks[3] \in BadBlocks
    /\ ~call.result.ok /\ call.result.val = << >>

\* ------------------------------------------ further properties of scoring

\* C21: on every board of the data model, in every quarter 0..3 and at every
\* score, checkAllMySquares and getFullBoardCellStatuses return without
\* throwing; on a board of the other mode they return the empty array and the
\* empty map
C21_NeverThrows ==
    /\ state.quarter \in 0..3
    /\ ~checkAllMySquaresThrows(board, state)
    /\ ~getFullBoardCellStatusesThrows(board, state)
    /\ ~IsMyBoard => statuses = << >>
    /\ ~IsFullBoard => cells = EmptyMap

\* C21 witness: a reroll full board in the last quarter at a negative score:
\* the map is there and the array of square statuses is empty
C21_Witness ==
    /\ IsFullBoard /\ board.config.reroll
    /\ state.quarter = 3 /\ state.score.top < 0
    /\ statuses = << >>
    /\ cells # EmptyMap
    /\ ~getFullBoardCellStatusesThrows(board, state)

SameCharCI(a, b) ==
    \/ a = b
    \/ \E k \in 1..26 : {a, b} = {UpperChars[k], LowerChars[k]}

\* two names equal under case-insensitive comparison
EqualCI(a, b) == Len(a) = Len(b) /\ \A k \in 1..Len(a) : SameCharCI(a[k], b[k])

\* the cells of the map that lie on the grid
OnGrid(key) ==
    /\ key[1] \in 0..(board.config.rows - 1)
    /\ key[2] \in 0..(board.config.cols - 1)

\* C23: an entry of getFullBoardCellStatuses has isMine exactly when the
\* owner name at grid[row][col] equals some name of fullBoard.mySquareNames
\* without regard to case, for the winner cell and the near-miss cells alike
C23_IsMine ==
    IsFullBoard =>
        \A key \in DOMAIN cells :
            OnGrid(key) =>
                (cells[key].isMine <=>
                    \E n \in 1..Len(board.fullBoard[1].mySquareNames) :
                        EqualCI(board.fullBoard[1].grid[key[1] + 1][key[2] + 1],
                                board.fullBoard[1].mySquareNames[n]))

\* C23 witness: a near-miss cell that is mine through a name written in
\* another case, beside a winner cell that is not mine
C23_Witness ==
    /\ IsFullBoard
    /\ \E key \in DOMAIN cells :
          /\ OnGrid(key) /\ ~cells[key].isWinner /\ cells[key].isMine
          /\ ~\E n \in 1..Len(board.fullBoard[1].mySquareNames) :
                 board.fullBoard[1].grid[key[1] + 1][key[2] + 1]
                     = board.fullBoard[1].mySquareNames[n]
    /\ \E key \in DOMAIN cells :
          OnGrid(key) /\ cells[key].isWinner /\ ~cells[key].isMine

\* ------------------------------------------- further properties of the parser

\* the quarters as the four number lines were written, in line order
WrittenQuarters(d) ==
    [q \in 1..4 |->
        [topNumbers |-> [k \in 1..d.cols |-> GroupAt(q, d.cols, k)],
         leftNumbers |-> [k \in 1..d.rows |-> GroupAt(q + 3, d.rows, k)]]]

\* C24: in a reroll full-board body the quarter of each of the 4 number
\* lines is its position, never the number in its Q label: with the labels
\* permuted or repeated the body parses, to the quarters of the line order
\* and to the same Board as with the labels 1 2 3 4
C24_PositionNotLabel ==
    (call.fn = "parseSingleBoard" /\ call.done /\ call.src.kind = "labels") =>
        /\ call.result.ok
        /\ call.result.val.fullBoard[1].quarters = WrittenQuarters(call.src)
        /\ call.result = parseSingleBoard(labelText([call.src EXCEPT !.labels = << 1, 2, 3, 4 >>]))

\* C24 witness: the lines labelled Q4 Q4 Q1 Q2 parsed in line order
C24_Witness ==
    /\ call.fn = "parseSingleBoard" /\ call.done /\ call.src.kind = "labels"
    /\ call.src.labels = << 4, 4, 1, 2 >>
    /\ call.result.ok
    /\ call.result.val.fullBoard[1].quarters[3] = WrittenQuarters(call.src)[3]

\* C25: a full-board body is accepted only if it is exactly the number
\* lines, then exactly rows grid lines, then at most one Mine line: a body
\* with a further line after the grid fails
C25_NoFurtherLine ==
    (/\ call.fn = "parseSingleBoard" /\ call.done
     /\ call.src.kind = "full" /\ call.src.off.rows > 0)
        => ~call.result.ok

\* C26: in every Board parseSingleBoard returns, config.payouts is absent or
\* a sequence of exactly 4 amounts; a payouts line with fewer or more than 4
\* integers, or with tokens that are no integers, gives no payouts of another
\* length
C26_FourPayouts ==
    (call.fn = "parseSingleBoard" /\ call.done /\ call.result.ok) =>
        \A i \in 1..Len(call.result.val.config.payouts) :
            Len(call.result.val.config.payouts[i]) = 4

\* the digit groups of an axis hold every digit 0..9 in exactly one group
Partitions(numbers) ==
    \A dgt \in 0..9 :
        Cardinality({ i \in 1..Len(numbers) : dgt \in ElemsOf(numbers[i]) }) = 1

\* checkMySquare on the digits of cell (r, c) of the active numbers
CellStatus(r, c) ==
    checkMySquare([topDigits |-> ActiveNumbers.topNumbers[c + 1],
                   leftDigits |-> ActiveNumbers.leftNumbers[r + 1]],
                  state.score.top, state.score.left,
                  board.config.topTeam, board.config.leftTeam)

EmitsAt(r, c, team, p) ==
    \E k \in 1..Len(fbStatus[1].nearMissPositions) :
        fbStatus[1].nearMissPositions[k] =
            [pos |-> [row |-> r, col |-> c], nearMiss |-> [team |-> team, points |-> p]]

\* C27: when the groups of each axis partition the digits 0..9 and the scores
\* are not negative, cell (r, c) is checkFullBoard's winnerPos exactly when
\* checkMySquare on the cell's digits reports isWinner, and checkFullBoard
\* emits near miss {team, points} at (r, c) exactly when checkMySquare on the
\* cell's digits lists it
C27_ModesAgree ==
    (/\ IsFullBoard
     /\ Partitions(ActiveNumbers.topNumbers) /\ Partitions(ActiveNumbers.leftNumbers)
     /\ state.score.top >= 0 /\ state.score.left >= 0) =>
        \A r \in 0..(board.config.rows - 1), c \in 0..(board.config.cols - 1) :
            /\ fbStatus[1].winnerPos = [row |-> r, col |-> c] <=> CellStatus(r, c).isWinner
            /\ \A team \in {board.config.topTeam, board.config.leftTeam}, p \in {3, 7} :
                   EmitsAt(r, c, team, p) <=> HasNear(CellStatus(r, c).nearMisses, team, p)

\* C27 witness: on a 5x5 partition the top +3 stays in the winning slot and
\* neither mode reports it, while a left-team near miss is reported by both
C27_Witness ==
    /\ IsFullBoard /\ board.config.cols = 5 /\ board.config.rows = 5
    /\ Partitions(ActiveNumbers.topNumbers) /\ Partitions(ActiveNumbers.leftNumbers)
    /\ state.score.top > 0 /\ state.score.left > 0
    /\ lastDigit(state.score.top + 3)
           \in ElemsOf(ActiveNumbers.topNumbers[fbStatus[1].winnerPos.col + 1])
    /\ \E r \in 0..4 :
          /\ EmitsAt(r, fbStatus[1].winnerPos.col, board.config.leftTeam, 7)
          /\ HasNear(CellStatus(r, fbStatus[1].winnerPos.col).nearMisses,
                     board.config.leftTeam, 7)

\* C28: checkMySquare never lists near misses of both teams at once: all
\* entries of nearMisses name the same team, so there are at most 2
C28_OneTeamNear ==
    IsMyBoard =>
        \A i \in 1..Len(statuses) :
            /\ Len(statuses[i].nearMisses) <= 2
            /\ \A k1, k2 \in 1..Len(statuses[i].nearMisses) :
                   statuses[i].nearMisses[k1].team = statuses[i].nearMisses[k2].team

\* C28 witness: a square with two digits on each axis that is one top-team
\* field goal and one top-team touchdown away at once
C28_Witness ==
    /\ IsMyBoard
    /\ \E i \in 1..Len(statuses) :
          /\ Len(statuses[i].nearMisses) = 2
          /\ statuses[i].nearMisses[1].team = board.config.topTeam
          /\ statuses[i].nearMisses[2].team = board.config.topTeam
          /\ Len(ActiveDigits(i).leftDigits) = 2

\* C29: in every map getFullBoardCellStatuses returns for a board with
\* fullBoard data exactly one entry has isWinner, that entry lists no near
\* miss, and every other entry lists 1 or 2 near misses
C29_OneWinnerEntry ==
    IsFullBoard =>
        /\ Cardinality({ key \in DOMAIN cells : cells[key].isWinner }) = 1
        /\ \A key \in DOMAIN cells :
               IF cells[key].isWinner
               THEN cells[key].nearMisses = << >>
               ELSE Len(cells[key].nearMisses) \in 1..2

\* C29 witness: a map of three entries, one of them with two near misses,
\* on a layout where +3 of the top score stays in the winning column
C29_Witness ==
    /\ IsFullBoard
    /\ Cardinality(DOMAIN cells) = 3
    /\ \E key \in DOMAIN cells : Len(cells[key].nearMisses) = 2
    /\ FirstSlot(ActiveNumbers.topNumbers, lastDigit(state.score.top + 3))
           = fbStatus[1].winnerPos.col

\* C30: from quarter 0 the quarter stays within 0..3 under every sequence
\* of commands of the two front ends: a step changes it by one at most, it
\* is not raised once it is 3 and not lowered once it is 0
C30_QuarterInRange ==
    /\ [](state.quarter \in 0..3)
    /\ [][/\ state'.quarter \in {state.quarter - 1, state.quarter, state.quarter + 1}
          /\ state.quarter = 3 => state'.quarter <= 3
          /\ state.quarter = 0 => state'.quarter >= 0]_vars

\* C30 witness: the Final quarter, reached on a my-squares board with both
\* scores entered
C30_Witness ==
    /\ IsMyBoard
    /\ state.quarter = 3
    /\ state.score.top > 0 /\ state.score.left > 0
    /\ statuses = checkAllMySquares(board, state)

====
